---------------------------- MODULE Spec2Model ----------------------------
(***************************************************************************)
(* Route/asset resolution core of next-core (app_structure.rs, emit.rs).   *)
(*                                                                         *)
(* Strings are sequences of one-character strings, so that the code's      *)
(* string operations (split_once, starts_with, strip_prefix, replace, the  *)
(* trailing-digit regex, i32 parsing, format!) are modelled by what they   *)
(* do.  Option<T> is a sequence of length at most one: None == <<>> and    *)
(* Some(x) == <<x>>.  An IndexMap is a sequence of [key, value] records in *)
(* insertion order; a BTreeMap is such a sequence kept sorted by key.      *)
(***************************************************************************)
EXTENDS Integers, Sequences, FiniteSets, TLC

(***************************************************************************)
(* String literals of the source.                                          *)
(***************************************************************************)
S_page == <<"p", "a", "g", "e">>
S_layout == <<"l", "a", "y", "o", "u", "t">>
S_error == <<"e", "r", "r", "o", "r">>
S_loading == <<"l", "o", "a", "d", "i", "n", "g">>
S_template == <<"t", "e", "m", "p", "l", "a", "t", "e">>
S_not_found == <<"n", "o", "t", "-", "f", "o", "u", "n", "d">>
S_default == <<"d", "e", "f", "a", "u", "l", "t">>
S_route == <<"r", "o", "u", "t", "e">>
S_manifest == <<"m", "a", "n", "i", "f", "e", "s", "t">>
S_icon == <<"i", "c", "o", "n">>
S_apple_icon == <<"a", "p", "p", "l", "e", "-", "i", "c", "o", "n">>
S_twitter_image == <<"t", "w", "i", "t", "t", "e", "r", "-", "i", "m", "a", "g", "e">>
S_opengraph_image == <<"o", "p", "e", "n", "g", "r", "a", "p", "h", "-", "i", "m", "a", "g", "e">>
S_favicon == <<"f", "a", "v", "i", "c", "o", "n">>
S_ico == <<"i", "c", "o">>
S_jpg == <<"j", "p", "g">>
S_jpeg == <<"j", "p", "e", "g">>
S_png == <<"p", "n", "g">>
S_svg == <<"s", "v", "g">>
S_gif == <<"g", "i", "f">>
S_webmanifest == <<"w", "e", "b", "m", "a", "n", "i", "f", "e", "s", "t">>
S_json == <<"j", "s", "o", "n">>
S_children == <<"c", "h", "i", "l", "d", "r", "e", "n">>
S_PAGE == <<"_", "_", "P", "A", "G", "E", "_", "_">>
S_DEFAULT == <<"_", "_", "D", "E", "F", "A", "U", "L", "T", "_", "_">>
S_slash == <<"/">>
S_slash_not_found == <<"/", "n", "o", "t", "-", "f", "o", "u", "n", "d">>
S_slash_underscore_not_found == <<"/", "_", "n", "o", "t", "-", "f", "o", "u", "n", "d">>
S_pct5F == <<"%", "5", "F">>
S_underscore == <<"_">>
S_alt_txt == <<".", "a", "l", "t", ".", "t", "x", "t">>
S_dist == <<"d", "i", "s", "t">>
S_client == <<"c", "l", "i", "e", "n", "t">>
S_components == <<"c", "o", "m", "p", "o", "n", "e", "n", "t", "s">>
S_parallel_route_default_js == <<"p", "a", "r", "a", "l", "l", "e", "l", "-", "r", "o", "u", "t", "e", "-", "d", "e", "f", "a", "u", "l", "t", ".", "j", "s">>
S_tsx == <<"t", "s", "x">>
S_ts == <<"t", "s">>
S_jsx == <<"j", "s", "x">>
S_js == <<"j", "s">>

(***************************************************************************)
(* Option<T>.                                                              *)
(***************************************************************************)
None == <<>>

Some(x) == <<x>>

is_some(o) == o # <<>>

\* Option::or
or(a, b) == IF is_some(a) THEN a ELSE b

(***************************************************************************)
(* str primitives.                                                         *)
(***************************************************************************)
\* Byte order of the characters that occur in names (String's Ord is
\* byte-wise); AsciiChars[i] is the character with code 31 + i (the three
\* characters that cannot be written in a name are place holders).
AsciiChars ==
    << " ", "!", "(quote)", "#", "$", "%", "&", "'", "(", ")", "*", "+", ",", "-",
       ".", "/", "0", "1", "2", "3", "4", "5", "6", "7", "8", "9", ":", ";",
       "<", "=", ">", "?", "@", "A", "B", "C", "D", "E", "F", "G", "H", "I",
       "J", "K", "L", "M", "N", "O", "P", "Q", "R", "S", "T", "U", "V", "W",
       "X", "Y", "Z", "[", "(backslash)", "]", "^", "_", "(backtick)", "a", "b", "c", "d", "e",
       "f", "g", "h", "i", "j", "k", "l", "m", "n", "o", "p", "q", "r", "s",
       "t", "u", "v", "w", "x", "y", "z", "{", "|", "}", "~" >>

CharCode(c) == 31 + (CHOOSE i \in 1..Len(AsciiChars) : AsciiChars[i] = c)

RECURSIVE str_lt(_, _)
\* a < b for Strings (lexicographic, byte-wise)
str_lt(a, b) ==
    IF b = <<>> THEN FALSE
    ELSE IF a = <<>> THEN TRUE
    ELSE IF Head(a) = Head(b) THEN str_lt(Tail(a), Tail(b))
    ELSE CharCode(Head(a)) < CharCode(Head(b))

starts_with(s, p) == Len(s) >= Len(p) /\ SubSeq(s, 1, Len(p)) = p

ends_with(s, p) == Len(s) >= Len(p) /\ SubSeq(s, Len(s) - Len(p) + 1, Len(s)) = p

\* str::split_once(ch): None, or Some(<<before, after>>) at the first ch
split_once(s, ch) ==
    IF \E i \in 1..Len(s) : s[i] = ch
    THEN LET i == CHOOSE i \in 1..Len(s) :
                      s[i] = ch /\ \A j \in 1..(i - 1) : s[j] # ch
         IN  Some(<<SubSeq(s, 1, i - 1), SubSeq(s, i + 1, Len(s))>>)
    ELSE None

\* str::rsplit_once(ch): None, or Some(<<before, after>>) at the last ch
rsplit_once(s, ch) ==
    IF \E i \in 1..Len(s) : s[i] = ch
    THEN LET i == CHOOSE i \in 1..Len(s) :
                      s[i] = ch /\ \A j \in (i + 1)..Len(s) : s[j] # ch
         IN  Some(<<SubSeq(s, 1, i - 1), SubSeq(s, i + 1, Len(s))>>)
    ELSE None

\* str::strip_prefix('@')
strip_prefix(s, p) ==
    IF starts_with(s, p) THEN Some(SubSeq(s, Len(p) + 1, Len(s))) ELSE None

RECURSIVE str_replace(_, _, _)
\* str::replace: every non-overlapping match of from, left to right
str_replace(s, from, to) ==
    IF s = <<>> THEN <<>>
    ELSE IF starts_with(s, from)
         THEN to \o str_replace(SubSeq(s, Len(from) + 1, Len(s)), from, to)
         ELSE <<Head(s)>> \o str_replace(Tail(s), from, to)

Digits == <<"0", "1", "2", "3", "4", "5", "6", "7", "8", "9">>

is_digit(c) == \E i \in 1..10 : Digits[i] = c

digit_value(c) == (CHOOSE i \in 1..10 : Digits[i] = c) - 1

\* The captures of the regex ^(.*?)(\d*)$ : the stem without its maximal
\* trailing run of digits, and that run.
regex_captures(stem) ==
    LET n == Len(stem)
        k == CHOOSE k \in 0..n :
                 /\ \A j \in (k + 1)..n : is_digit(stem[j])
                 /\ (k > 0 => ~is_digit(stem[k]))
    IN  <<SubSeq(stem, 1, k), SubSeq(stem, k + 1, n)>>

I32_MAX == 2147483647

RECURSIVE parse_digits(_, _)
\* checked accumulation of decimal digits into an i32; None on overflow
parse_digits(s, acc) ==
    IF s = <<>> THEN Some(acc)
    ELSE LET d == digit_value(Head(s))
         IN  IF acc > (I32_MAX - d) \div 10 THEN None
             ELSE parse_digits(Tail(s), acc * 10 + d)

\* str::parse::<i32>() of a (possibly empty) run of digits
parse_i32(s) == IF s = <<>> THEN None ELSE parse_digits(s, 0)

\* Option::unwrap_or
unwrap_or(o, d) == IF is_some(o) THEN o[1] ELSE d

contains(list, x) == \E i \in 1..Len(list) : list[i] = x

\* the elements of a sequence
Range(list) == {list[i] : i \in 1..Len(list)}

(***************************************************************************)
(* Result<T>.                                                              *)
(***************************************************************************)
Ok(v) == [ok |-> TRUE, value |-> v]

Err(e) == [ok |-> FALSE, error |-> e]

(***************************************************************************)
(* File-system paths.  A directory of the app directory is the sequence of *)
(* the on-disk names leading to it (the app directory itself is <<>>); a   *)
(* file-system snapshot maps every directory to its listing, a sequence of *)
(* [name, kind] entries in the order read_dir yields them.                 *)
(***************************************************************************)
\* FileSystemPath::join of one name on a directory of the app directory
join(dir, name) == [fs |-> "app_dir", path |-> Append(dir, name)]

\* get_next_package(app_dir).join("dist/client/components/parallel-route-default.js")
parallel_route_default ==
    [fs |-> "next_package",
     path |-> <<S_dist, S_client, S_components, S_parallel_route_default_js>>]

\* read_dir taking a path that is no directory for an empty directory
read_dir_or_empty(snapshot, dir) ==
    IF dir \in DOMAIN snapshot THEN Some(snapshot[dir]) ELSE Some(<<>>)
\* FileSystemPath::read_dir: the entries, or None when dir is no directory
read_dir(snapshot, dir) ==
    IF dir \in DOMAIN snapshot THEN Some(snapshot[dir]) ELSE None

\* FileSystemPath::get_type(dir/name) == FileSystemEntryType::File
is_file(snapshot, dir, name) ==
    /\ dir \in DOMAIN snapshot
    /\ \E i \in 1..Len(snapshot[dir]) :
           snapshot[dir][i].name = name /\ snapshot[dir][i].kind = "File"

(***************************************************************************)
(* Components and Metadata.                                                *)
(***************************************************************************)
\* Metadata::default()
MetadataDefault ==
    [icon |-> <<>>, apple |-> <<>>, twitter |-> <<>>, open_graph |-> <<>>,
     favicon |-> <<>>, manifest |-> None]

\* Components::default()
ComponentsDefault ==
    [page |-> None, layout |-> None, error |-> None, loading |-> None,
     template |-> None, not_found |-> None, default |-> None, route |-> None,
     metadata |-> MetadataDefault]

\* Components::without_leafs
without_leafs(self) ==
    [page |-> None,
     layout |-> self.layout,
     error |-> self.error,
     loading |-> self.loading,
     template |-> self.template,
     not_found |-> self.not_found,
     default |-> None,
     route |-> None,
     metadata |-> self.metadata]

\* Metadata::merge
MetadataMerge(a, b) ==
    [icon |-> a.icon \o b.icon,
     apple |-> a.apple \o b.apple,
     twitter |-> a.twitter \o b.twitter,
     open_graph |-> a.open_graph \o b.open_graph,
     favicon |-> a.favicon \o b.favicon,
     manifest |-> or(a.manifest, b.manifest)]

\* Components::merge
ComponentsMerge(a, b) ==
    [page |-> or(a.page, b.page),
     layout |-> or(a.layout, b.layout),
     error |-> or(a.error, b.error),
     loading |-> or(a.loading, b.loading),
     template |-> or(a.template, b.template),
     not_found |-> or(a.not_found, b.not_found),
     default |-> or(a.default, b.default),
     route |-> or(a.route, b.route),
     metadata |-> MetadataMerge(a.metadata, b.metadata)]

\* MetadataWithAltItem::Static
MetadataWithAltItemStatic(path, alt_path) ==
    [kind |-> "Static", path |-> path, alt_path |-> alt_path]

\* MetadataWithAltItem::Dynamic
MetadataWithAltItemDynamic(path) == [kind |-> "Dynamic", path |-> path]

\* MetadataItem::Static
MetadataItemStatic(path) == [kind |-> "Static", path |-> path]

\* MetadataItem::Dynamic
MetadataItemDynamic(path) == [kind |-> "Dynamic", path |-> path]

(***************************************************************************)
(* Maps.                                                                   *)
(***************************************************************************)
\* IndexMap::get_index_of: the position of key, 0 when absent
get_index_of(map, key) ==
    IF \E i \in 1..Len(map) : map[i].key = key
    THEN CHOOSE i \in 1..Len(map) : map[i].key = key
    ELSE 0

\* Entry::Vacant::insert: a new key goes last
vacant_insert(map, key, value) == Append(map, [key |-> key, value |-> value])

\* Entry::Occupied::get_mut assignment: the value changes, the slot stays
\* occupied_set that takes the entry out and puts it back at the end
occupied_set_reinserting(map, i, value) ==
    Append(SelectSeq(map, LAMBDA e : e.key # map[i].key),
           [key |-> map[i].key, value |-> value])

occupied_set(map, i, value) == [map EXCEPT ![i] = [key |-> map[i].key, value |-> value]]

\* BTreeMap::insert: keys stay sorted; an equal key has its value replaced
btree_insert(map, key, value) ==
    IF get_index_of(map, key) # 0
    THEN occupied_set(map, get_index_of(map, key), value)
    ELSE LET n == Cardinality({i \in 1..Len(map) : str_lt(map[i].key, key)})
         IN  SubSeq(map, 1, n) \o <<[key |-> key, value |-> value]>>
                 \o SubSeq(map, n + 1, Len(map))

(***************************************************************************)
(* Directory classification (get_directory_tree).                          *)
(***************************************************************************)
STATIC_LOCAL_METADATA ==
    << [key |-> S_icon, value |-> <<S_ico, S_jpg, S_jpeg, S_png, S_svg>>],
       [key |-> S_apple_icon, value |-> <<S_jpg, S_jpeg, S_png>>],
       [key |-> S_opengraph_image, value |-> <<S_jpg, S_jpeg, S_png, S_gif>>],
       [key |-> S_twitter_image, value |-> <<S_jpg, S_jpeg, S_png, S_gif>>],
       [key |-> S_favicon, value |-> <<S_ico>>],
       [key |-> S_manifest, value |-> <<S_webmanifest, S_json>>] >>

\* HashMap::get
hash_get(map, key) ==
    IF get_index_of(map, key) # 0 THEN Some(map[get_index_of(map, key)].value)
    ELSE None

\* match_metadata_file: None, or Some(<<stem, num, dynamic>>)
match_metadata_file(basename, page_extensions) ==
    LET so == split_once(basename, ".")
    IN  IF ~is_some(so) THEN None
        ELSE LET ext == so[1][2]
                 captures == regex_captures(so[1][1])
                 stem == captures[1]
                 num == unwrap_or(parse_i32(captures[2]), -1)
                 exts == hash_get(STATIC_LOCAL_METADATA, stem)
             IN  IF contains(page_extensions, ext) THEN Some(<<stem, num, TRUE>>)
                 ELSE IF ~is_some(exts) THEN None
                 ELSE IF contains(exts[1], ext) THEN Some(<<stem, num, FALSE>>)
                 ELSE None

\* get_underscore_normalized_path
get_underscore_normalized_path(path) == str_replace(path, S_pct5F, S_underscore)

RECURSIVE sort(_)
\* the local fn sort: a stable sort by num, the sort key then dropped
sort(list) ==
    IF list = <<>> THEN <<>>
    ELSE LET m == CHOOSE i \in 1..Len(list) :
                      /\ \A j \in 1..Len(list) : list[i][1] <= list[j][1]
                      /\ \A j \in 1..(i - 1) : list[j][1] # list[i][1]
         IN  <<list[m][2]>>
                 \o sort(SubSeq(list, 1, m - 1) \o SubSeq(list, m + 1, Len(list)))

\* is_private with the test left out
is_private_never(basename) == FALSE

\* appDir ignores paths starting with an underscore
is_private(basename) == starts_with(basename, S_underscore)

\* the slot of Components a page-extension file with this stem is assigned to
assign_special(components, stem, file) ==
    CASE stem = S_page -> [components EXCEPT !.page = Some(file)]
      [] stem = S_layout -> [components EXCEPT !.layout = Some(file)]
      [] stem = S_error -> [components EXCEPT !.error = Some(file)]
      [] stem = S_loading -> [components EXCEPT !.loading = Some(file)]
      [] stem = S_template -> [components EXCEPT !.template = Some(file)]
      [] stem = S_not_found -> [components EXCEPT !.not_found = Some(file)]
      [] stem = S_default -> [components EXCEPT !.default = Some(file)]
      [] stem = S_route -> [components EXCEPT !.route = Some(file)]
      [] OTHER -> components

\* the metadata item pushed for a matched file: Dynamic, or Static with the
\* sidecar <basename>.alt.txt when that is a file
metadata_item(snapshot, dir, file_name, dynamic) ==
    IF dynamic THEN MetadataWithAltItemDynamic(join(dir, file_name))
    ELSE LET rs == rsplit_once(file_name, ".")
             basename == IF is_some(rs) THEN rs[1][1] ELSE file_name
             alt_name == basename \o S_alt_txt
         IN  MetadataWithAltItemStatic(
                 join(dir, file_name),
                 IF is_file(snapshot, dir, alt_name) THEN Some(join(dir, alt_name))
                 ELSE None)

\* entry.push((num, item)) on the list the metadata type selects
push_metadata(acc, metadata_type, num, item) ==
    CASE metadata_type = S_icon ->
             [acc EXCEPT !.metadata_icon = Append(@, <<num, item>>)]
      [] metadata_type = S_apple_icon ->
             [acc EXCEPT !.metadata_apple = Append(@, <<num, item>>)]
      [] metadata_type = S_twitter_image ->
             [acc EXCEPT !.metadata_twitter = Append(@, <<num, item>>)]
      [] metadata_type = S_opengraph_image ->
             [acc EXCEPT !.metadata_open_graph = Append(@, <<num, item>>)]
      [] metadata_type = S_favicon ->
             [acc EXCEPT !.metadata_favicon = Append(@, <<num, item>>)]
      [] OTHER -> acc

\* the DirectoryEntry::File arm of the loop of get_directory_tree
classify_file(snapshot, dir, page_extensions, acc, basename) ==
    LET file == join(dir, basename)
        so == split_once(basename, ".")
        is_page_ext == is_some(so) /\ contains(page_extensions, so[1][2])
        acc1 == IF is_page_ext
                THEN [acc EXCEPT !.components = assign_special(@, so[1][1], file)]
                ELSE acc
        m == match_metadata_file(basename, page_extensions)
    IN  IF is_page_ext /\ so[1][1] = S_manifest
        THEN [acc EXCEPT !.components.metadata.manifest =
                             Some(MetadataItemDynamic(file))]
        ELSE IF ~is_some(m) THEN acc1
        ELSE IF m[1][1] = S_manifest
             THEN IF m[1][2] = -1
                  THEN [acc1 EXCEPT !.components.metadata.manifest =
                                        Some(MetadataItemStatic(file))]
                  ELSE acc1
        ELSE push_metadata(acc1, m[1][1], m[1][2],
                           metadata_item(snapshot, dir, basename, m[1][3]))

RECURSIVE get_directory_tree(_, _, _)
RECURSIVE classify_entries(_, _, _, _, _)
\* the loop of get_directory_tree over entries[i..]
classify_entries(snapshot, dir, page_extensions, acc, i) ==
    LET entries == read_dir(snapshot, dir)[1]
        basename == entries[i].name
    IN  IF i > Len(entries) THEN acc
        ELSE classify_entries(snapshot, dir, page_extensions,
                 CASE entries[i].kind = "File" ->
                          classify_file(snapshot, dir, page_extensions, acc, basename)
                   [] entries[i].kind = "Directory" ->
                          IF ~is_private(basename)
                          THEN [acc EXCEPT !.subdirectories =
                                   btree_insert(@,
                                       get_underscore_normalized_path(basename),
                                       get_directory_tree(snapshot,
                                           Append(dir, basename), page_extensions))]
                          ELSE acc
                   [] OTHER -> acc,
                 i + 1)

\* get_directory_tree: Ok(DirectoryTree), or Err when dir is no directory
get_directory_tree(snapshot, dir, page_extensions) ==
    IF ~is_some(read_dir(snapshot, dir)) THEN Err("must be a directory")
    ELSE LET acc == classify_entries(snapshot, dir, page_extensions,
                        [subdirectories |-> <<>>,
                         components |-> ComponentsDefault,
                         metadata_icon |-> <<>>,
                         metadata_apple |-> <<>>,
                         metadata_open_graph |-> <<>>,
                         metadata_twitter |-> <<>>,
                         metadata_favicon |-> <<>>], 1)
         IN  Ok([subdirectories |-> acc.subdirectories,
                 components |->
                     [acc.components EXCEPT
                          !.metadata.icon = sort(acc.metadata_icon),
                          !.metadata.apple = sort(acc.metadata_apple),
                          !.metadata.twitter = sort(acc.metadata_twitter),
                          !.metadata.open_graph = sort(acc.metadata_open_graph),
                          !.metadata.favicon = sort(acc.metadata_favicon)]])

(***************************************************************************)
(* Loader trees and the Entrypoints table.                                 *)
(***************************************************************************)
\* LoaderTree { segment, parallel_routes, components }
LoaderTree(segment, parallel_routes, components) ==
    [segment |-> segment, parallel_routes |-> parallel_routes,
     components |-> components]

\* Entrypoint::AppPage
AppPage(original_name, loader_tree) ==
    [type |-> "AppPage", original_name |-> original_name,
     loader_tree |-> loader_tree]

\* Entrypoint::AppRoute
AppRoute(original_name, path) ==
    [type |-> "AppRoute", original_name |-> original_name, path |-> path]

\* DirectoryTreeIssue reported as a warning
DirectoryTreeIssueWarning(text, key, first, second) ==
    [severity |-> "Warning", app_dir |-> "app_dir",
     message |-> [text |-> text, key |-> key, first |-> first, second |-> second]]

\* DirectoryTreeIssue, with the message's text and arguments kept apart
DirectoryTreeIssue(text, key, first, second) ==
    [severity |-> "Error", app_dir |-> "app_dir",
     message |-> [text |-> text, key |-> key, first |-> first, second |-> second]]

is_parallel_route(name) == starts_with(name, <<"@">>)

match_parallel_route(name) == strip_prefix(name, <<"@">>)

RECURSIVE merge_loader_trees(_, _)
RECURSIVE add_parallel_route(_, _, _)
RECURSIVE merge_parallel_routes(_, _, _)
\* add_parallel_route replacing the tree of an occupied slot
add_parallel_route_replacing(result, key, loader_tree) ==
    LET i == get_index_of(result, key)
    IN  IF i # 0
        THEN occupied_set(result, i, loader_tree)
        ELSE vacant_insert(result, key, loader_tree)
\* add_parallel_route: merge into an occupied slot, else insert last
add_parallel_route(result, key, loader_tree) ==
    LET i == get_index_of(result, key)
    IN  IF i # 0
        THEN occupied_set(result, i, merge_loader_trees(result[i].value, loader_tree))
        ELSE vacant_insert(result, key, loader_tree)

\* the loop of merge_loader_trees over tree2.parallel_routes[i..]
merge_parallel_routes(parallel_routes, routes2, i) ==
    IF i > Len(routes2) THEN parallel_routes
    ELSE merge_parallel_routes(
             add_parallel_route(parallel_routes, routes2[i].key, routes2[i].value),
             routes2, i + 1)

\* merge_loader_trees
merge_loader_trees(tree1, tree2) ==
    LoaderTree(
        IF tree1.segment # <<>> THEN tree1.segment ELSE tree2.segment,
        merge_parallel_routes(tree1.parallel_routes, tree2.parallel_routes, 1),
        ComponentsMerge(tree1.components, tree2.components))

\* what a registration yields: the table after the call, the issues the
\* call emitted, and its return value
Registered(result, emitted) == [result |-> result, emitted |-> emitted, ret |-> "Ok"]

\* add_app_page_on_page without the comparison of the original names
add_app_page_on_page_ignoring_name(result, i, key, original_name, loader_tree) ==
    Registered(
        occupied_set(result, i,
            AppPage(result[i].value.original_name,
                merge_loader_trees(result[i].value.loader_tree, loader_tree))),
        <<>>)

\* add_app_page_on_page with the operands of the merge exchanged
add_app_page_on_page_merging_right(result, i, key, original_name, loader_tree) ==
    IF result[i].value.original_name # original_name
    THEN Registered(result,
             <<DirectoryTreeIssue("Conflicting pages", key,
                   result[i].value.original_name, original_name)>>)
    ELSE Registered(
             occupied_set(result, i,
                 AppPage(result[i].value.original_name,
                     merge_loader_trees(loader_tree, result[i].value.loader_tree))),
             <<>>)

\* add_app_page, Entry::Occupied holding an AppPage (slot i)
add_app_page_on_page(result, i, key, original_name, loader_tree) ==
    IF result[i].value.original_name # original_name
    THEN Registered(result,
             <<DirectoryTreeIssue("Conflicting pages", key,
                   result[i].value.original_name, original_name)>>)
    ELSE Registered(
             occupied_set(result, i,
                 AppPage(result[i].value.original_name,
                     merge_loader_trees(result[i].value.loader_tree, loader_tree))),
             <<>>)

\* add_app_page_on_route without its return: the slot is overwritten
add_app_page_on_route_overwriting(result, i, key, original_name, loader_tree) ==
    Registered(occupied_set(result, i, AppPage(original_name, loader_tree)),
        <<DirectoryTreeIssue("Conflicting page and route", key,
              result[i].value.original_name, original_name)>>)

\* add_app_page, Entry::Occupied holding an AppRoute (slot i)
add_app_page_on_route(result, i, key, original_name, loader_tree) ==
    Registered(result,
        <<DirectoryTreeIssue("Conflicting page and route", key,
              result[i].value.original_name, original_name)>>)

\* add_app_page
add_app_page(result, key, original_name, loader_tree) ==
    LET i == get_index_of(result, key)
    IN  IF i = 0
        THEN Registered(
                 vacant_insert(result, key, AppPage(original_name, loader_tree)), <<>>)
        ELSE IF result[i].value.type = "AppPage"
        THEN add_app_page_on_page(result, i, key, original_name, loader_tree)
        ELSE add_app_page_on_route(result, i, key, original_name, loader_tree)

\* add_app_route, Entry::Occupied holding an AppPage (slot i): the issue is
\* emitted and, there being no return in this arm, the slot is overwritten
add_app_route_on_page(result, i, key, original_name, path) ==
    Registered(occupied_set(result, i, AppRoute(original_name, path)),
        <<DirectoryTreeIssue("Conflicting route and page", key,
              original_name, result[i].value.original_name)>>)

\* add_app_route_on_route without its return: the slot is overwritten
add_app_route_on_route_overwriting(result, i, key, original_name, path) ==
    Registered(occupied_set(result, i, AppRoute(original_name, path)),
        <<DirectoryTreeIssue("Conflicting routes", key,
              result[i].value.original_name, original_name)>>)

\* add_app_route, Entry::Occupied holding an AppRoute (slot i)
add_app_route_on_route(result, i, key, original_name, path) ==
    Registered(result,
        <<DirectoryTreeIssue("Conflicting routes", key,
              result[i].value.original_name, original_name)>>)

\* add_app_route
add_app_route(result, key, original_name, path) ==
    LET i == get_index_of(result, key)
    IN  IF i = 0
        THEN Registered(
                 vacant_insert(result, key, AppRoute(original_name, path)), <<>>)
        ELSE IF result[i].value.type = "AppPage"
        THEN add_app_route_on_page(result, i, key, original_name, path)
        ELSE add_app_route_on_route(result, i, key, original_name, path)

(***************************************************************************)
(* Route resolution (directory_tree_to_entrypoints_internal).              *)
(***************************************************************************)
\* the bare leaf a page file is registered as
page_leaf(page) ==
    LoaderTree(S_PAGE, <<>>, [ComponentsDefault EXCEPT !.page = Some(page)])

\* the bare leaf a default file is registered as
default_leaf(default) ==
    LoaderTree(S_DEFAULT, <<>>, [ComponentsDefault EXCEPT !.default = Some(default)])

\* own_loader_tree nesting the leaf under children in a parallel slot too
own_loader_tree_always_nested(directory_name, components, leaf) ==
    LoaderTree(directory_name,
        <<[key |-> S_children, value |-> leaf]>>,
        without_leafs(components))
\* the loader tree registered for a directory's own page or default file
own_loader_tree(directory_name, components, leaf) ==
    IF is_parallel_route(directory_name) THEN leaf
    ELSE LoaderTree(directory_name,
             <<[key |-> S_children, value |-> leaf]>>,
             without_leafs(components))

\* the loader tree of the root not-found entries
not_found_loader_tree(directory_name, components) ==
    LoaderTree(directory_name,
        <<[key |-> S_children, value |-> default_leaf(parallel_route_default)]>>,
        without_leafs(components))

\* applies one registration to the running [result, emitted] of a level
then_page(st, key, original_name, loader_tree) ==
    LET r == add_app_page(st.result, key, original_name, loader_tree)
    IN  [result |-> r.result, emitted |-> st.emitted \o r.emitted]

then_route(st, key, original_name, path) ==
    LET r == add_app_route(st.result, key, original_name, path)
    IN  [result |-> r.result, emitted |-> st.emitted \o r.emitted]

\* register_not_found registering the entry under one of its keys only
register_not_found_once(st, directory_name, components) ==
    then_page(st, S_slash_not_found, S_slash_not_found,
              not_found_loader_tree(directory_name, components))

\* the root not-found page as its own entry point, under both of its keys
register_not_found(st, directory_name, components) ==
    LET tree == not_found_loader_tree(directory_name, components)
    IN  then_page(
            then_page(st, S_slash_not_found, S_slash_not_found, tree),
            S_slash_underscore_not_found, S_slash_underscore_not_found, tree)

\* registrations of the directory's own files, in the order of the code:
\* page, default, route, then the root not-found entries
register_own(directory_name, components, path_prefix, original_name_prefix) ==
    LET st0 == [result |-> <<>>, emitted |-> <<>>]
        st1 == IF is_some(components.page)
               THEN then_page(st0, path_prefix, original_name_prefix,
                        own_loader_tree(directory_name, components,
                                        page_leaf(components.page[1])))
               ELSE st0
        st2 == IF is_some(components.default)
               THEN then_page(st1, path_prefix, original_name_prefix,
                        own_loader_tree(directory_name, components,
                                        default_leaf(components.default[1])))
               ELSE st1
        st3 == IF is_some(components.route)
               THEN then_route(st2, path_prefix, original_name_prefix,
                               components.route[1])
               ELSE st2
    IN  IF path_prefix = S_slash /\ is_some(components.not_found)
        THEN register_not_found(st3, directory_name, components)
        ELSE st3

is_route_group(subdir_name) ==
    starts_with(subdir_name, <<"(">>) /\ ends_with(subdir_name, <<")">>)

\* sub_prefix that lets a parallel slot add its name to the path
sub_prefix_through_slots(path_prefix, subdir_name) ==
    IF is_route_group(subdir_name)
    THEN path_prefix
    ELSE IF path_prefix = S_slash THEN S_slash \o subdir_name
    ELSE path_prefix \o S_slash \o subdir_name
\* the path_prefix handed to a subdirectory
sub_prefix(path_prefix, subdir_name) ==
    IF is_route_group(subdir_name) \/ is_some(match_parallel_route(subdir_name))
    THEN path_prefix
    ELSE IF path_prefix = S_slash THEN S_slash \o subdir_name
    ELSE path_prefix \o S_slash \o subdir_name

\* sub_original_name_prefix that keeps the name of a parallel slot
sub_original_name_prefix_through_slots(path_prefix, subdir_name) ==
    IF is_route_group(subdir_name)
    THEN path_prefix
    ELSE IF path_prefix = S_slash THEN S_slash \o subdir_name
    ELSE path_prefix \o S_slash \o subdir_name
\* the original_name_prefix handed to a subdirectory: the second of the two
\* equal conditionals of the call, computed from path_prefix as the first is
sub_original_name_prefix(path_prefix, subdir_name) ==
    IF is_route_group(subdir_name) \/ is_some(match_parallel_route(subdir_name))
    THEN path_prefix
    ELSE IF path_prefix = S_slash THEN S_slash \o subdir_name
    ELSE path_prefix \o S_slash \o subdir_name

\* merge_entry nesting every page under the slot children
merge_entry_under_children(st, directory_name, components, subdir_name, full_path, entrypoint) ==
    IF entrypoint.type = "AppPage"
    THEN IF is_parallel_route(directory_name)
         THEN then_page(st, full_path, entrypoint.original_name,
                        entrypoint.loader_tree)
         ELSE then_page(st, full_path, entrypoint.original_name,
                  LoaderTree(directory_name,
                      <<[key |-> S_children, value |-> entrypoint.loader_tree]>>,
                      without_leafs(components)))
    ELSE then_route(st, full_path, entrypoint.original_name, entrypoint.path)

\* merge_entry registering every page of a subdirectory unchanged
merge_entry_unchanged(st, directory_name, components, subdir_name, full_path, entrypoint) ==
    IF entrypoint.type = "AppPage"
    THEN then_page(st, full_path, entrypoint.original_name, entrypoint.loader_tree)
    ELSE then_route(st, full_path, entrypoint.original_name, entrypoint.path)
\* one entry of a subdirectory's map merged into the current level
merge_entry(st, directory_name, components, subdir_name, full_path, entrypoint) ==
    IF entrypoint.type = "AppPage"
    THEN IF is_parallel_route(directory_name)
         THEN then_page(st, full_path, entrypoint.original_name,
                        entrypoint.loader_tree)
         ELSE then_page(st, full_path, entrypoint.original_name,
                  LoaderTree(directory_name,
                      <<[key |-> unwrap_or(match_parallel_route(subdir_name),
                                           S_children),
                         value |-> entrypoint.loader_tree]>>,
                      without_leafs(components)))
    ELSE then_route(st, full_path, entrypoint.original_name, entrypoint.path)

RECURSIVE merge_map(_, _, _, _, _, _)
\* the inner loop over a subdirectory's map[j..]
merge_map(st, directory_name, components, subdir_name, map, j) ==
    IF j > Len(map) THEN st
    ELSE merge_map(
             merge_entry(st, directory_name, components, subdir_name,
                         map[j].key, map[j].value),
             directory_name, components, subdir_name, map, j + 1)

RECURSIVE directory_tree_to_entrypoints_internal(_, _, _, _)
RECURSIVE merge_subdirectories(_, _, _, _, _, _)
\* the outer loop over subdirectories[i..]; Err when a subdirectory fails
merge_subdirectories(st, directory_name, components, subdirectories, path_prefix, i) ==
    IF i > Len(subdirectories) THEN Ok(st)
    ELSE LET subdir_name == subdirectories[i].key
             sub == directory_tree_to_entrypoints_internal(
                        subdir_name, subdirectories[i].value,
                        sub_prefix(path_prefix, subdir_name),
                        sub_original_name_prefix(path_prefix, subdir_name))
         IN  IF ~sub.ok THEN sub
             ELSE merge_subdirectories(
                      merge_map([result |-> st.result,
                                 emitted |-> st.emitted \o sub.value.emitted],
                                directory_name, components, subdir_name,
                                sub.value.result, 1),
                      directory_name, components, subdirectories, path_prefix, i + 1)

\* directory_tree_to_entrypoints_internal: Ok([result, emitted]) with the
\* level's Entrypoints and the issues emitted by it and below it, or Err
directory_tree_to_entrypoints_internal(directory_name, directory_tree, path_prefix, original_name_prefix) ==
    IF ~directory_tree.ok THEN directory_tree
    ELSE merge_subdirectories(
             register_own(directory_name, directory_tree.value.components,
                          path_prefix, original_name_prefix),
             directory_name, directory_tree.value.components,
             directory_tree.value.subdirectories, path_prefix, 1)

\* directory_tree_to_entrypoints
directory_tree_to_entrypoints(directory_tree) ==
    directory_tree_to_entrypoints_internal(<<>>, directory_tree, S_slash, S_slash)

\* get_entrypoints
get_entrypoints(snapshot, page_extensions) ==
    directory_tree_to_entrypoints(get_directory_tree(snapshot, <<>>, page_extensions))

(***************************************************************************)
(* Global metadata (get_global_metadata).                                  *)
(***************************************************************************)
S_robots == <<"r", "o", "b", "o", "t", "s">>

S_sitemap == <<"s", "i", "t", "e", "m", "a", "p">>

S_txt == <<"t", "x", "t">>

S_xml == <<"x", "m", "l">>

STATIC_GLOBAL_METADATA ==
    << [key |-> S_favicon, value |-> <<S_ico>>],
       [key |-> S_robots, value |-> <<S_txt>>],
       [key |-> S_sitemap, value |-> <<S_xml>>] >>

\* GlobalMetadata::default()
GlobalMetadataDefault == [favicon |-> None, robots |-> None, sitemap |-> None]

\* the body of the loop of get_global_metadata for one entry
global_entry(dir, page_extensions, metadata, entry) ==
    LET file == join(dir, entry.name)
        so == split_once(entry.name, ".")
        stem == so[1][1]
        ext == so[1][2]
        list == IF stem = S_favicon THEN Some("favicon")
                ELSE IF stem = S_sitemap THEN Some("sitemap")
                ELSE IF stem = S_robots THEN Some("robots")
                ELSE None
        dynamic == IF contains(page_extensions, ext)
                   THEN [metadata EXCEPT ![list[1]] = Some(MetadataItemDynamic(file))]
                   ELSE metadata
    IN  IF entry.kind # "File" THEN metadata
        ELSE IF ~is_some(so) THEN metadata
        ELSE IF ~is_some(list) THEN metadata
        ELSE IF contains(hash_get(STATIC_GLOBAL_METADATA, stem)[1], ext)
        THEN [dynamic EXCEPT ![list[1]] = Some(MetadataItemStatic(file))]
        ELSE dynamic

\* the loop of get_global_metadata over entries[i..]
RECURSIVE global_entries(_, _, _, _, _)
global_entries(dir, page_extensions, metadata, entries, i) ==
    IF i > Len(entries) THEN metadata
    ELSE global_entries(dir, page_extensions,
             global_entry(dir, page_extensions, metadata, entries[i]),
             entries, i + 1)

\* get_global_metadata: Ok(GlobalMetadata), or Err when app_dir is no directory
get_global_metadata(snapshot, app_dir, page_extensions) ==
    IF ~is_some(read_dir(snapshot, app_dir)) THEN Err("app_dir must be a directory")
    ELSE Ok(global_entries(app_dir, page_extensions, GlobalMetadataDefault,
                           read_dir(snapshot, app_dir)[1], 1))
(***************************************************************************)
(* emit.rs: the walk over the asset graph, and the emitter.               *)
(* An output asset is [path |-> FileSystemPath]; a FileSystemPath here is  *)
(* [fs, path] with path the sequence of its segments.                      *)
(***************************************************************************)
\* Asset::ident().path()
ident_path(asset) == asset.path

\* FileSystemPath::is_inside_ref: strictly below other, on the same file system
is_inside_ref(self, other) ==
    /\ self.fs = other.fs
    /\ Len(other.path) < Len(self.path)
    /\ SubSeq(self.path, 1, Len(other.path)) = other.path

\* turbo_tasks_fs::rebase: new_base takes the place of the prefix old_base
rebase(fs_path, old_base, new_base) ==
    [fs |-> new_base.fs,
     path |-> new_base.path
                  \o SubSeq(fs_path.path, Len(old_base.path) + 1, Len(fs_path.path))]

\* AdjacencyMap::new().skip_duplicates(): the store of the traversal
AdjacencyMap_new ==
    [visited |-> {}, roots |-> <<>>, adjacency_map |-> [n \in {} |-> <<>>]]

\* SkipDuplicates<AdjacencyMap>::insert: the edge is always recorded; the node
\* is handed back (to have its own edges fetched) the first time it is seen
store_insert(store, from_handle, node) ==
    LET recorded ==
            IF from_handle = None
            THEN [store EXCEPT !.roots = Append(@, node)]
            ELSE LET from == from_handle[1]
                     old == IF from \in DOMAIN store.adjacency_map
                            THEN store.adjacency_map[from] ELSE <<>>
                 IN  [store EXCEPT !.adjacency_map =
                         (from :> Append(old, node)) @@ store.adjacency_map]
    IN  IF node \notin store.visited
        THEN [store |-> [recorded EXCEPT !.visited = @ \cup {node}],
              handle |-> Some(node)]
        ELSE [store |-> recorded, handle |-> None]

\* GraphTraversal::visit, one batch of edges out of from_handle: every edge is
\* inserted, and a future is pushed for every node the store hands back
RECURSIVE insert_edges(_, _, _, _, _)
insert_edges(store, futures, from_handle, edges, i) ==
    IF i > Len(edges)
    THEN [store |-> store, futures |-> futures]
    ELSE LET r == store_insert(store, from_handle, edges[i])
         IN  insert_edges(r.store,
                          IF r.handle = None THEN futures
                          ELSE futures \cup {r.handle[1]},
                          from_handle, edges, i + 1)

\* AdjacencyMap::into_reverse_topological: the roots, first root on top
into_reverse_topological(store) ==
    [adjacency_map |-> store.adjacency_map,
     stack |-> [i \in 1..Len(store.roots) |->
                   <<"Pre", store.roots[Len(store.roots) + 1 - i]>>],
     visited |-> {}]

\* reversed(list)
rev(list) == [i \in 1..Len(list) |-> list[Len(list) + 1 - i]]

\* ReverseTopologicalIter::next: pops until a node is due (a node without
\* edges on its first visit, any other node on its second), None on an empty
\* stack
RECURSIVE iter_next(_)
iter_next(it) ==
    IF it.stack = <<>>
    THEN [iter |-> it, item |-> None]
    ELSE LET top == it.stack[Len(it.stack)]
             pass == top[1]
             current == top[2]
             popped == [it EXCEPT !.stack = SubSeq(@, 1, Len(@) - 1)]
         IN  IF pass = "Post"
             THEN [iter |-> popped, item |-> Some(current)]
             ELSE IF current \in it.visited
             THEN iter_next(popped)
             ELSE LET seen == [popped EXCEPT !.visited = @ \cup {current}]
                  IN  IF current \notin DOMAIN it.adjacency_map
                      THEN [iter |-> seen, item |-> Some(current)]
                      ELSE LET neighbors == it.adjacency_map[current]
                           IN  iter_next([seen EXCEPT !.stack =
                                   @ \o <<<<"Post", current>>>>
                                     \o [i \in 1..Len(neighbors) |->
                                            <<"Pre", rev(neighbors)[i]>>]])

\* emit(asset): the content is written at the asset's own path
emit(asset) == [content |-> asset, path |-> ident_path(asset)]

\* emit_rebase(asset, from, to): the content is written at the rebased path
emit_rebase(asset, from, to) ==
    [content |-> asset, path |-> rebase(ident_path(asset), from, to)]

\* emit_asset, the two tests in the other order
emit_asset_preferring_client(asset, node_root, client_relative_path, client_output_path) ==
    IF is_inside_ref(ident_path(asset), client_relative_path)
    THEN Some(emit_rebase(asset, client_relative_path, client_output_path))
    ELSE IF is_inside_ref(ident_path(asset), node_root)
    THEN Some(emit(asset))
    ELSE None

\* emit_assets, the closure run for one asset: Some(write), or None for
\* Completion::immutable()
emit_asset(asset, node_root, client_relative_path, client_output_path) ==
    IF is_inside_ref(ident_path(asset), node_root)
    THEN Some(emit(asset))
    ELSE IF is_inside_ref(ident_path(asset), client_relative_path)
    THEN Some(emit_rebase(asset, client_relative_path, client_output_path))
    ELSE None

\* Completion::immutable(): a Completion that waits for nothing.  A
\* Completion is modelled as the set of writes it waits for.
Completion_immutable == {}

\* the closure returning Completion::immutable() for every asset, its write
\* started but not waited for
closure_completion_immutable(write) == Completion_immutable
\* the Completion the closure of emit_assets returns for one asset: that of
\* the write it started, or Completion::immutable() when it started none
closure_completion(write) ==
    IF write = None THEN Completion_immutable ELSE {write[1]}

\* Completions::all: a Completion that waits for all that the given ones
\* wait for
Completions_all(children) == UNION {children[i] : i \in 1..Len(children)}

(***************************************************************************)
(* The state.                                                              *)
(*   result, issues : an Entrypoints table under direct registration       *)
(*                    calls, and the issues emitted so far                 *)
(*   last           : the last registration call and the table before it   *)
(*   snapshot       : the file-system snapshot of the app directory        *)
(*   directory_tree : None, or Some(result of get_directory_tree)          *)
(*   entrypoints    : None, or Some(result of get_entrypoints)             *)
(*   global_metadata: None, or Some(result of get_global_metadata)         *)
(*   levels         : per directory, the evaluation under way of           *)
(*                    directory_tree_to_entrypoints_internal for it, when  *)
(*                    the levels of a pass are evaluated concurrently      *)
(*   pc             : where the walk or the emitter stands                 *)
(*   references     : the asset graph, references() of every asset         *)
(*   store, futures : the traversal of all_assets_from_entries: its store  *)
(*                    and the nodes whose edges are being fetched          *)
(*   iter           : the ReverseTopologicalIter being collected           *)
(*   all_assets     : the assets collected so far                          *)
(*   assets, node_root : the arguments of the running emit_assets          *)
(*   completions    : per asset of assets, "pending" or "done": whether    *)
(*                    the closure run for it has returned                  *)
(*   writes         : the writes started so far, in the order the closures *)
(*                    started them                                         *)
(*   returned       : per asset of assets, the Completion its closure      *)
(*                    returned: the set of writes it waits for             *)
(*   finished       : the writes completed so far, in the order they       *)
(*                    completed                                            *)
(***************************************************************************)
VARIABLES result, issues, last, snapshot, directory_tree, entrypoints,
          global_metadata, levels, pc, references, store, futures, iter, all_assets,
          assets, node_root, completions, writes, returned, finished

table_vars == <<result, issues, last>>

pass_vars == <<snapshot, directory_tree, entrypoints, global_metadata, levels>>

walk_vars == <<references, store, futures, iter, all_assets>>

emit_vars == <<assets, node_root, completions, writes, returned, finished>>

vars == <<table_vars, pass_vars, pc, walk_vars, emit_vars>>

\* bounds of the model
MaxCalls == 3

MaxEntries == 4

MaxDepth == 2

\* NextConfig::page_extensions, at its default
PageExtensions == <<S_tsx, S_ts, S_jsx, S_js>>

(***************************************************************************)
(* Names the snapshots and the registration calls are drawn from.          *)
(***************************************************************************)
F_page_tsx == <<"p", "a", "g", "e", ".", "t", "s", "x">>

F_route_ts == <<"r", "o", "u", "t", "e", ".", "t", "s">>

F_not_found_tsx == <<"n", "o", "t", "-", "f", "o", "u", "n", "d", ".", "t", "s", "x">>

F_layout_tsx == <<"l", "a", "y", "o", "u", "t", ".", "t", "s", "x">>

F_icon_png == <<"i", "c", "o", "n", ".", "p", "n", "g">>

F_icon1_png == <<"i", "c", "o", "n", "1", ".", "p", "n", "g">>

F_icon2_png == <<"i", "c", "o", "n", "2", ".", "p", "n", "g">>

F_icon01_png == <<"i", "c", "o", "n", "0", "1", ".", "p", "n", "g">>

F_icon_tsx == <<"i", "c", "o", "n", ".", "t", "s", "x">>

F_icon_big_png == <<"i", "c", "o", "n", "4", "2", "9", "4", "9", "6", "7", "2", "9", "6", ".", "p", "n", "g">>

D_modal == <<"@", "m", "o", "d", "a", "l">>

D_private == <<"_", "p", "r", "i", "v", "a", "t", "e">>

D_blog == <<"b", "l", "o", "g">>

K_a == <<"/", "a">>

\* keys and original names of direct registration calls
Keys == {S_slash, K_a}

\* output assets: the nodes of the asset graph
A_entry == [path |-> [fs |-> "output", path |-> <<"node", "entry.js">>]]

A_a == [path |-> [fs |-> "output", path |-> <<"client", "x", "y.js">>]]

A_b == [path |-> [fs |-> "output", path |-> <<"client", "node", "b.js">>]]

A_c == [path |-> [fs |-> "output", path |-> <<"other", "z.js">>]]

Assets == {A_entry, A_a, A_b, A_c}

\* loader trees of direct registration calls: the two trees the root level
\* registers at "/" for its own page and for the page of an @modal slot
SampleComponents ==
    [ComponentsDefault EXCEPT
         !.layout = Some(join(<<>>, F_layout_tsx)),
         !.metadata.icon =
             <<MetadataWithAltItemStatic(join(<<>>, F_icon_png), None)>>]

SampleLoaderTrees ==
    { own_loader_tree(<<>>, SampleComponents, page_leaf(join(<<>>, F_page_tsx))),
      LoaderTree(<<>>,
          <<[key |-> SubSeq(D_modal, 2, Len(D_modal)),
             value |-> page_leaf(join(<<D_modal>>, F_page_tsx))]>>,
          without_leafs(SampleComponents)) }

\* route files of direct registration calls
SamplePaths == {join(<<>>, F_route_ts), join(<<D_blog>>, F_route_ts)}

(***************************************************************************)
(* Initial state.                                                          *)
(***************************************************************************)
Init ==
    /\ result = <<>>
    /\ issues = <<>>
    /\ last = [op |-> "none"]
    /\ snapshot = (<<>> :> <<>>)
    /\ directory_tree = None
    /\ entrypoints = None
    /\ global_metadata = None
    /\ levels = <<>>
    /\ pc = "idle"
    /\ references = [asset \in Assets |-> <<>>]
    /\ store = AdjacencyMap_new
    /\ futures = {}
    /\ iter = into_reverse_topological(AdjacencyMap_new)
    /\ all_assets = <<>>
    /\ assets = <<>>
    /\ node_root = None
    /\ completions = <<>>
    /\ writes = <<>>
    /\ returned = <<>>
    /\ finished = <<>>

(***************************************************************************)
(* Registration calls on one table.                                        *)
(***************************************************************************)
\* the number of registration calls made so far
CallCount == IF last.op = "none" THEN 0 ELSE last.n

AddAppPage(key, original_name, loader_tree) ==
    LET r == add_app_page(result, key, original_name, loader_tree)
    IN  /\ CallCount < MaxCalls
        /\ result' = r.result
        /\ issues' = issues \o r.emitted
        /\ last' = [op |-> "add_app_page", key |-> key,
                    original_name |-> original_name, arg |-> loader_tree,
                    before |-> result, emitted |-> r.emitted, ret |-> r.ret,
                    n |-> CallCount + 1]
        /\ UNCHANGED <<pass_vars, pc, walk_vars, emit_vars>>

AddAppRoute(key, original_name, path) ==
    LET r == add_app_route(result, key, original_name, path)
    IN  /\ CallCount < MaxCalls
        /\ result' = r.result
        /\ issues' = issues \o r.emitted
        /\ last' = [op |-> "add_app_route", key |-> key,
                    original_name |-> original_name, arg |-> path,
                    before |-> result, emitted |-> r.emitted, ret |-> r.ret,
                    n |-> CallCount + 1]
        /\ UNCHANGED <<pass_vars, pc, walk_vars, emit_vars>>

Next ==
    \/ \E key \in Keys, original_name \in Keys, loader_tree \in SampleLoaderTrees :
           AddAppPage(key, original_name, loader_tree)
    \/ \E key \in Keys, original_name \in Keys, path \in SamplePaths :
           AddAppRoute(key, original_name, path)

Spec == Init /\ [][Next]_vars

(***************************************************************************)
(* A resolution pass over a snapshot.  The snapshot is built entry by      *)
(* entry (every listing order arises); get_entrypoints then reads it.      *)
(***************************************************************************)
InsertAt(list, pos, e) ==
    SubSeq(list, 1, pos - 1) \o <<e>> \o SubSeq(list, pos, Len(list))

EntryCount(snap) ==
    Cardinality(UNION {{<<d, i>> : i \in 1..Len(snap[d])} : d \in DOMAIN snap})

HasEntry(snap, dir, name) == \E i \in 1..Len(snap[dir]) : snap[dir][i].name = name

\* a file appears in a directory, at any place of its listing
CreateFile(names) ==
    \E dir \in DOMAIN snapshot, name \in names :
        \E pos \in 1..(Len(snapshot[dir]) + 1) :
            /\ entrypoints = None
            /\ global_metadata = None
            /\ DOMAIN levels = {}
            /\ EntryCount(snapshot) < MaxEntries
            /\ ~HasEntry(snapshot, dir, name)
            /\ snapshot' = [snapshot EXCEPT ![dir] =
                               InsertAt(@, pos, [name |-> name, kind |-> "File"])]
            /\ UNCHANGED <<directory_tree, entrypoints, global_metadata, levels, table_vars,
                           pc, walk_vars, emit_vars>>

\* a subdirectory appears in a directory, at any place of its listing
CreateDirectory(names) ==
    \E dir \in DOMAIN snapshot, name \in names :
        \E pos \in 1..(Len(snapshot[dir]) + 1) :
            /\ entrypoints = None
            /\ global_metadata = None
            /\ DOMAIN levels = {}
            /\ EntryCount(snapshot) < MaxEntries
            /\ Len(dir) < MaxDepth
            /\ ~HasEntry(snapshot, dir, name)
            /\ snapshot' =
                   [d \in DOMAIN snapshot \cup {Append(dir, name)} |->
                       IF d = dir
                       THEN InsertAt(snapshot[dir], pos,
                                     [name |-> name, kind |-> "Directory"])
                       ELSE IF d \in DOMAIN snapshot THEN snapshot[d] ELSE <<>>]
            /\ UNCHANGED <<directory_tree, entrypoints, global_metadata, levels, table_vars,
                           pc, walk_vars, emit_vars>>

\* one resolution pass: get_entrypoints(app_dir, page_extensions)
GetEntrypoints ==
    /\ entrypoints = None
    /\ DOMAIN levels = {}
    /\ directory_tree' = Some(get_directory_tree(snapshot, <<>>, PageExtensions))
    /\ entrypoints' = Some(get_entrypoints(snapshot, PageExtensions))
    /\ UNCHANGED <<snapshot, global_metadata, levels, table_vars, pc, walk_vars,
                   emit_vars>>

RouteFiles == {F_page_tsx, F_route_ts, F_not_found_tsx}

RouteDirs == {D_modal, D_private, D_blog}

NextResolve ==
    \/ CreateFile(RouteFiles)
    \/ CreateDirectory(RouteDirs)
    \/ GetEntrypoints

SpecResolve == Init /\ [][NextResolve]_vars

(***************************************************************************)
(* A resolution pass over a directory of metadata files.                   *)
(***************************************************************************)
MetadataFiles ==
    {F_icon_png, F_icon1_png, F_icon2_png, F_icon01_png, F_icon_tsx, F_icon_big_png}

NextMetadata ==
    \/ CreateFile(MetadataFiles)
    \/ GetEntrypoints

SpecMetadata == Init /\ [][NextMetadata]_vars

(***************************************************************************)
(* Registration calls on one table, or a resolution pass over a snapshot.  *)
(***************************************************************************)
NextConflicts ==
    \/ /\ snapshot = (<<>> :> <<>>)
       /\ entrypoints = None
       /\ Next
    \/ /\ last.op = "none"
       /\ NextResolve

SpecConflicts == Init /\ [][NextConflicts]_vars

(***************************************************************************)
(* A resolution pass over page, default, route and layout files in route   *)
(* groups, parallel slots and directories that add a path segment.         *)
(***************************************************************************)
F_default_tsx == <<"d", "e", "f", "a", "u", "l", "t", ".", "t", "s", "x">>

D_group == <<"(", "g", ")">>

D_escaped == <<"%", "5", "F", "b">>

LayoutFiles == {F_page_tsx, F_default_tsx, F_route_ts, F_layout_tsx}

LayoutDirs == {D_group, D_modal, D_escaped}

NextLayouts ==
    \/ CreateFile(LayoutFiles)
    \/ CreateDirectory(LayoutDirs)
    \/ GetEntrypoints

SpecLayouts == Init /\ [][NextLayouts]_vars

(***************************************************************************)
(* A resolution pass over directories whose names differ only in the       *)
(* escaping of an underscore.                                              *)
(***************************************************************************)
D_a_pct5F == <<"a", "%", "5", "F">>

D_a_underscore == <<"a", "_">>

EscapedDirs == {D_a_pct5F, D_a_underscore, D_modal}

NextEscaped ==
    \/ CreateFile({F_page_tsx, F_route_ts})
    \/ CreateDirectory(EscapedDirs)
    \/ GetEntrypoints

SpecEscaped == Init /\ [][NextEscaped]_vars

(***************************************************************************)
(* A pass over layouts in which a directory with a metadata file is the    *)
(* ancestor of several pages of one path.                                  *)
(***************************************************************************)
SharedFiles == {F_page_tsx, F_icon_png}

SharedDirs == {D_modal, D_group}

NextShared ==
    \/ CreateFile(SharedFiles)
    \/ CreateDirectory(SharedDirs)
    \/ GetEntrypoints

SpecShared == Init /\ [][NextShared]_vars
(***************************************************************************)
(* merge_loader_trees applied to two loader trees.                         *)
(***************************************************************************)
\* Components to merge: with a layout and an icon, and with a page, another
\* layout, a template, another icon and a manifest
OtherComponents ==
    [ComponentsDefault EXCEPT
         !.page = Some(join(<<D_blog>>, F_page_tsx)),
         !.layout = Some(join(<<D_blog>>, F_layout_tsx)),
         !.template = Some(join(<<D_blog>>, F_default_tsx)),
         !.metadata.icon =
             <<MetadataWithAltItemStatic(join(<<D_blog>>, F_icon1_png), None),
               MetadataWithAltItemDynamic(join(<<D_blog>>, F_icon_tsx))>>,
         !.metadata.manifest = Some(MetadataItemStatic(join(<<D_blog>>, F_icon_png)))]

MergeComponents == {ComponentsDefault, SampleComponents, OtherComponents}

\* leaves, nodes over at most one leaf, and nodes over such nodes
MergeLeaves ==
    {page_leaf(join(<<>>, F_page_tsx)), default_leaf(join(<<D_modal>>, F_default_tsx))}

MergeNodes ==
    {LoaderTree(segment, slots, components) :
        segment \in {<<>>, D_blog},
        slots \in {<<>>}
                    \cup {<<[key |-> key, value |-> leaf]>> :
                             key \in {S_children, <<"m", "o", "d", "a", "l">>},
                             leaf \in MergeLeaves},
        components \in MergeComponents}

MergeDeepNodes ==
    {LoaderTree(segment, slots, components) :
        segment \in {<<>>, D_blog},
        slots \in UNION
            {{<<[key |-> S_children, value |-> node]>>,
              <<[key |-> <<"m", "o", "d", "a", "l">>,
                 value |-> page_leaf(join(<<D_modal>>, F_page_tsx))],
                [key |-> S_children, value |-> node]>>} :
                node \in {LoaderTree(D_blog,
                              <<[key |-> S_children, value |-> leaf]>>,
                              OtherComponents) : leaf \in MergeLeaves}},
        components \in {SampleComponents, OtherComponents}}

MergeTrees == MergeLeaves \cup MergeNodes \cup MergeDeepNodes

\* merge_loader_trees(tree1, tree2)
MergeLoaderTrees(tree1, tree2) ==
    /\ last.op = "none"
    /\ last' = [op |-> "merge_loader_trees", tree1 |-> tree1, tree2 |-> tree2,
                merged |-> merge_loader_trees(tree1, tree2)]
    /\ UNCHANGED <<result, issues, pass_vars, pc, walk_vars, emit_vars>>

NextMerge == \E tree1 \in MergeTrees, tree2 \in MergeTrees : MergeLoaderTrees(tree1, tree2)

SpecMerge == Init /\ [][NextMerge]_vars
(***************************************************************************)
(* get_global_metadata over a directory of global metadata files.          *)
(***************************************************************************)
F_favicon_ico == S_favicon \o <<".">> \o S_ico

F_favicon_tsx == S_favicon \o <<".">> \o S_tsx

F_robots_txt == S_robots \o <<".">> \o S_txt

F_robots_ts == S_robots \o <<".">> \o S_ts

F_sitemap_xml == S_sitemap \o <<".">> \o S_xml

F_sitemap_ts == S_sitemap \o <<".">> \o S_ts

GlobalFiles ==
    {F_favicon_ico, F_favicon_tsx, F_robots_txt, F_robots_ts, F_sitemap_xml,
     F_sitemap_ts}

\* get_global_metadata(app_dir, page_extensions)
GetGlobalMetadata ==
    /\ global_metadata = None
    /\ global_metadata' = Some(get_global_metadata(snapshot, <<>>, PageExtensions))
    /\ UNCHANGED <<snapshot, directory_tree, entrypoints, levels, table_vars, pc, walk_vars,
                   emit_vars>>

NextGlobal ==
    \/ CreateFile(GlobalFiles)
    \/ GetGlobalMetadata

SpecGlobal == Init /\ [][NextGlobal]_vars
(***************************************************************************)
(* A resolution pass and get_global_metadata over a snapshot in which a    *)
(* directory has gone since its parent was listed, or the app directory    *)
(* itself is no directory.                                                 *)
(***************************************************************************)
\* dir is a prefix of d
IsPrefix(dir, d) == Len(dir) <= Len(d) /\ SubSeq(d, 1, Len(dir)) = dir

\* a directory, with all beneath it, stops being a directory; the listing of
\* its parent, read before, still names it
RemoveDirectory(dir) ==
    /\ entrypoints = None
    /\ global_metadata = None
    /\ DOMAIN levels = {}
    /\ dir \in DOMAIN snapshot
    /\ snapshot' = [d \in {d \in DOMAIN snapshot : ~IsPrefix(dir, d)} |-> snapshot[d]]
    /\ UNCHANGED <<directory_tree, entrypoints, global_metadata, levels, table_vars,
                   pc, walk_vars, emit_vars>>

NextFailure ==
    \/ CreateFile({F_page_tsx})
    \/ CreateDirectory({D_blog, D_modal, D_private})
    \/ \E dir \in DOMAIN snapshot : RemoveDirectory(dir)
    \/ GetEntrypoints
    \/ GetGlobalMetadata

SpecFailure == Init /\ [][NextFailure]_vars

(***************************************************************************)
(* A resolution pass whose levels are evaluated concurrently: every call   *)
(* of directory_tree_to_entrypoints_internal is a task of its own, the     *)
(* tasks of sibling subdirectories run and return in any order, and a      *)
(* level takes up the map of a subdirectory where its loop awaits it.      *)
(* A level is named by the child-map names leading to its directory.       *)
(***************************************************************************)
\* a call of directory_tree_to_entrypoints_internal up to its loop: the tree
\* is awaited and the directory's own files are registered
level(directory_name, tree, path_prefix, original_name_prefix) ==
    IF ~tree.ok
    THEN [directory_name |-> directory_name, path_prefix |-> path_prefix,
          components |-> ComponentsDefault, remaining |-> <<>>,
          st |-> [result |-> <<>>, emitted |-> <<>>],
          returned |-> Some(tree)]
    ELSE [directory_name |-> directory_name, path_prefix |-> path_prefix,
          components |-> tree.value.components,
          remaining |-> tree.value.subdirectories,
          st |-> register_own(directory_name, tree.value.components,
                              path_prefix, original_name_prefix),
          returned |-> None]

\* awaited taking up first a subdirectory whose map has been returned
awaited_first_returned(remaining, returned_keys) ==
    IF \E i \in 1..Len(remaining) : remaining[i].key \in returned_keys
    THEN remaining[CHOOSE i \in 1..Len(remaining) :
                       /\ remaining[i].key \in returned_keys
                       /\ \A j \in 1..(i - 1) : remaining[j].key \notin returned_keys]
    ELSE Head(remaining)
\* the subdirectory whose map the loop awaits: the next one of the child map,
\* whichever maps have been returned
awaited(remaining, returned_keys) == Head(remaining)

\* the names of the subdirectories of a level whose maps have been returned
ReturnedKeys(id) ==
    {e.key : e \in {e \in Range(levels[id].remaining) :
                        /\ Append(id, e.key) \in DOMAIN levels
                        /\ levels[Append(id, e.key)].returned # None}}

\* directory_tree_to_entrypoints is called on the tree of the app directory
CallRoot ==
    /\ entrypoints = None
    /\ DOMAIN levels = {}
    /\ directory_tree' = Some(get_directory_tree(snapshot, <<>>, PageExtensions))
    /\ levels' = (<<>> :> level(<<>>, directory_tree'[1], S_slash, S_slash))
    /\ entrypoints' = levels'[<<>>].returned
    /\ UNCHANGED <<snapshot, global_metadata, table_vars, pc, walk_vars, emit_vars>>

\* the call for a subdirectory of a level starts running
CallInternal(id, subdir_name) ==
    /\ entrypoints = None
    /\ id \in DOMAIN levels
    /\ levels[id].returned = None
    /\ Append(id, subdir_name) \notin DOMAIN levels
    /\ \E i \in 1..Len(levels[id].remaining) :
           /\ levels[id].remaining[i].key = subdir_name
           /\ levels' = levels @@
                  (Append(id, subdir_name) :>
                       level(subdir_name, levels[id].remaining[i].value,
                             sub_prefix(levels[id].path_prefix, subdir_name),
                             sub_original_name_prefix(levels[id].path_prefix,
                                                      subdir_name)))
    /\ UNCHANGED <<snapshot, directory_tree, entrypoints, global_metadata, table_vars,
                   pc, walk_vars, emit_vars>>

\* the loop of a level takes up the map it awaits: its entries are merged, or
\* its failure is the level's
AwaitMap(id) ==
    /\ entrypoints = None
    /\ id \in DOMAIN levels
    /\ levels[id].returned = None
    /\ levels[id].remaining # <<>>
    /\ LET l == levels[id]
           e == awaited(l.remaining, ReturnedKeys(id))
           sub_id == Append(id, e.key)
       IN  /\ sub_id \in DOMAIN levels
           /\ levels[sub_id].returned # None
           /\ LET map == levels[sub_id].returned[1]
              IN  levels' = [levels EXCEPT ![id] =
                      IF ~map.ok THEN [l EXCEPT !.returned = Some(map)]
                      ELSE [l EXCEPT
                               !.remaining = SelectSeq(l.remaining,
                                                 LAMBDA x : x.key # e.key),
                               !.st = merge_map(
                                          [result |-> l.st.result,
                                           emitted |-> l.st.emitted
                                                          \o map.value.emitted],
                                          l.directory_name, l.components, e.key,
                                          map.value.result, 1)]]
    /\ entrypoints' = levels'[<<>>].returned
    /\ UNCHANGED <<snapshot, directory_tree, global_metadata, table_vars, pc,
                   walk_vars, emit_vars>>

\* the loop of a level is over: the level returns its map
ReturnMap(id) ==
    /\ entrypoints = None
    /\ id \in DOMAIN levels
    /\ levels[id].returned = None
    /\ levels[id].remaining = <<>>
    /\ levels' = [levels EXCEPT ![id].returned = Some(Ok(levels[id].st))]
    /\ entrypoints' = levels'[<<>>].returned
    /\ UNCHANGED <<snapshot, directory_tree, global_metadata, table_vars, pc,
                   walk_vars, emit_vars>>

\* the child-map names of the directories of the snapshots
ConcurrentDirs == {D_modal, D_blog}

NextConcurrent ==
    \/ CreateFile({F_page_tsx, F_route_ts})
    \/ CreateDirectory(ConcurrentDirs)
    \/ CallRoot
    \/ \E id \in DOMAIN levels, subdir_name \in ConcurrentDirs :
           CallInternal(id, subdir_name)
    \/ \E id \in DOMAIN levels : AwaitMap(id)
    \/ \E id \in DOMAIN levels : ReturnMap(id)

SpecConcurrent == Init /\ [][NextConcurrent]_vars

(***************************************************************************)
(* The walk of all_assets_from_entries over an asset graph.  The graph is  *)
(* built reference by reference; the walk then runs, the futures of the    *)
(* traversal completing in any order.                                      *)
(***************************************************************************)
MaxRefs == 4

RefCount ==
    Cardinality(UNION {{<<a, i>> : i \in 1..Len(references[a])} : a \in Assets})

\* an asset gains a reference, last in its references()
AddReference(from, to) ==
    /\ pc = "idle"
    /\ RefCount < MaxRefs
    /\ \A i \in 1..Len(references[from]) : references[from][i] # to
    /\ references' = [references EXCEPT ![from] = Append(@, to)]
    /\ UNCHANGED <<table_vars, pass_vars, pc, store, futures, iter, all_assets,
                   emit_vars>>

\* all_assets_from_entries(entries): visit() inserts the entries as roots
AllAssetsFromEntries(entries) ==
    /\ pc = "idle"
    /\ LET r == insert_edges(AdjacencyMap_new, {}, None, entries, 1)
       IN  /\ store' = r.store
           /\ futures' = r.futures
    /\ pc' = "visit"
    /\ UNCHANGED <<table_vars, pass_vars, references, iter, all_assets, emit_vars>>

\* get_referenced_assets, cut short after the first reference
get_referenced_assets_first(asset) ==
    IF references[asset] = <<>> THEN <<>> ELSE <<Head(references[asset])>>

\* get_referenced_assets: asset.references(), collected
get_referenced_assets(asset) == references[asset]

\* the future of get_referenced_assets(node) completes
GetReferencedAssets(node) ==
    /\ pc = "visit"
    /\ node \in futures
    /\ LET r == insert_edges(store, futures \ {node}, Some(node),
                             get_referenced_assets(node), 1)
       IN  /\ store' = r.store
           /\ futures' = r.futures
    /\ UNCHANGED <<table_vars, pass_vars, pc, references, iter, all_assets,
                   emit_vars>>

\* no future is left: .completed()?.into_inner().into_reverse_topological()
Completed ==
    /\ pc = "visit"
    /\ futures = {}
    /\ iter' = into_reverse_topological(store)
    /\ pc' = "collect"
    /\ UNCHANGED <<table_vars, pass_vars, references, store, futures, all_assets,
                   emit_vars>>

\* collect, every item put in front of the ones before it
collect_in_front(collected, item) == <<item>> \o collected

\* .collect() into the Vec of OutputAssets: items in the order they come
collect(collected, item) == Append(collected, item)

\* .collect(): one call of ReverseTopologicalIter::next
Collect ==
    /\ pc = "collect"
    /\ LET r == iter_next(iter)
       IN  /\ iter' = r.iter
           /\ IF r.item = None
              THEN pc' = "collected" /\ UNCHANGED all_assets
              ELSE pc' = pc /\ all_assets' = collect(all_assets, r.item[1])
    /\ UNCHANGED <<table_vars, pass_vars, references, store, futures, emit_vars>>

\* the assets that get references, and the assets they get references to
Referrers == {A_entry, A_a, A_b}

Referents == {A_a, A_b, A_c}

\* entry lists: one entry, or several with one of them given twice
EntryLists == {<<A_entry>>, <<A_b, A_entry, A_b>>}

\* the steps of a running walk
Walk ==
    \/ \E node \in Assets : GetReferencedAssets(node)
    \/ Completed
    \/ Collect

NextWalk ==
    \/ \E from \in Referrers, to \in Referents : AddReference(from, to)
    \/ \E entries \in EntryLists : AllAssetsFromEntries(entries)
    \/ \E node \in Assets : GetReferencedAssets(node)
    \/ Completed
    \/ Collect

\* the executor polls every pending future and the collecting loop runs on
SpecWalk == Init /\ [][NextWalk]_vars /\ WF_vars(Walk)
(***************************************************************************)
(* A run of emit_assets over a list of assets, the per-asset futures       *)
(* completing in any order.                                                *)
(***************************************************************************)
MaxAssets == 3

\* lists of distinct assets, of at most MaxAssets assets
AssetLists ==
    {list \in UNION {[1..n -> Assets] : n \in 0..MaxAssets} :
        \A i, j \in 1..Len(list) : list[i] = list[j] => i = j}

\* the roots emit_assets is called with
NodeRoots ==
    {[fs |-> "output", path |-> <<"node">>],
     [fs |-> "output", path |-> <<"client", "node">>]}

ClientRelativePath == [fs |-> "output", path |-> <<"client">>]

ClientOutputPath == [fs |-> "output", path |-> <<"out", "_next">>]

\* emit_assets(assets, node_root, client_relative_path, client_output_path):
\* one future per asset
EmitAssets(list, root) ==
    /\ pc = "idle"
    /\ assets' = list
    /\ node_root' = Some(root)
    /\ completions' = [i \in 1..Len(list) |-> "pending"]
    /\ writes' = <<>>
    /\ returned' = [i \in 1..Len(list) |-> Completion_immutable]
    /\ finished' = <<>>
    /\ pc' = "emit"
    /\ UNCHANGED <<table_vars, pass_vars, walk_vars>>

\* the closure of one asset runs: its write, if it needs one, is started,
\* and the closure returns a Completion
EmitAsset(i) ==
    /\ pc = "emit"
    /\ i \in 1..Len(assets)
    /\ completions[i] = "pending"
    /\ LET write == emit_asset(assets[i], node_root[1], ClientRelativePath,
                               ClientOutputPath)
       IN  /\ writes' = IF write = None THEN writes ELSE Append(writes, write[1])
           /\ returned' = [returned EXCEPT ![i] = closure_completion(write)]
    /\ completions' = [completions EXCEPT ![i] = "done"]
    /\ UNCHANGED <<table_vars, pass_vars, pc, walk_vars, assets, node_root, finished>>

\* a started write completes
WriteCompletes(write) ==
    /\ pc = "emit"
    /\ write \in Range(writes)
    /\ write \notin Range(finished)
    /\ finished' = Append(finished, write)
    /\ UNCHANGED <<table_vars, pass_vars, pc, walk_vars, assets, node_root,
                   completions, writes, returned>>

\* the Completion of emit_assets is done: the try_join has every closure's
\* Completion, and all that Completions::all of them waits for is done
CompletionsAll ==
    /\ pc = "emit"
    /\ \A i \in 1..Len(assets) : completions[i] = "done"
    /\ Completions_all(returned) \subseteq Range(finished)
    /\ pc' = "emitted"
    /\ UNCHANGED <<table_vars, pass_vars, walk_vars, emit_vars>>

NextEmit ==
    \/ \E list \in AssetLists, root \in NodeRoots : EmitAssets(list, root)
    \/ \E i \in 1..MaxAssets : EmitAsset(i)
    \/ \E write \in Range(writes) : WriteCompletes(write)
    \/ CompletionsAll

SpecEmit == Init /\ [][NextEmit]_vars

(***************************************************************************)
(* A run of emit_all_assets: the walk from the entries, then emit_assets   *)
(* over the assets collected; or a run of emit_assets over a list.         *)
(***************************************************************************)
\* emit_all_assets(assets, ..): emit_assets on all_assets_from_entries(assets)
EmitAllAssets(root) ==
    /\ pc = "collected"
    /\ assets' = all_assets
    /\ node_root' = Some(root)
    /\ completions' = [i \in 1..Len(all_assets) |-> "pending"]
    /\ writes' = <<>>
    /\ returned' = [i \in 1..Len(all_assets) |-> Completion_immutable]
    /\ finished' = <<>>
    /\ pc' = "emit"
    /\ UNCHANGED <<table_vars, pass_vars, walk_vars>>

NextEmitAll ==
    \/ \E from \in {A_entry, A_a}, to \in Referents : AddReference(from, to)
    \/ AllAssetsFromEntries(<<A_entry>>)
    \/ \E node \in Assets : GetReferencedAssets(node)
    \/ Completed
    \/ Collect
    \/ \E root \in NodeRoots : EmitAllAssets(root)
    \/ \E list \in AssetLists, root \in NodeRoots :
           references = [asset \in Assets |-> <<>>] /\ EmitAssets(list, root)
    \/ \E i \in 1..Len(assets) : EmitAsset(i)
    \/ \E write \in Range(writes) : WriteCompletes(write)
    \/ CompletionsAll

SpecEmitAll == Init /\ [][NextEmitAll]_vars
(***************************************************************************)
(* Properties of the registration calls.                                   *)
(***************************************************************************)
\* the entry the table held under the call's key before the call
Before == last.before[get_index_of(last.before, last.key)].value

\* the entry the table holds under the call's key after the call
After == result[get_index_of(result, last.key)].value

\* the last call found its key occupied by an entry of this type
CalledOn(op, type) ==
    /\ last.op = op
    /\ get_index_of(last.before, last.key) # 0
    /\ Before.type = type

\* the last call emitted exactly one issue, an error
OneErrorIssue ==
    /\ Len(last.emitted) = 1
    /\ last.emitted[1].severity = "Error"
    /\ issues = SubSeq(issues, 1, Len(issues) - 1) \o last.emitted

\* C1: a Route registered at a key that holds a Page emits an error issue
\* and leaves the original Page under that key (the Route is rejected).
C1_RouteOnPageKeepsPage ==
    CalledOn("add_app_route", "AppPage") =>
        /\ OneErrorIssue
        /\ get_index_of(result, last.key) = get_index_of(last.before, last.key)
        /\ After = Before

\* C2: a Page registered at a key that holds a Route emits an error issue
\* and leaves the entry of that key unchanged: the same Route, with the
\* same original_name and path.
C2_PageOnRouteKeepsRoute ==
    CalledOn("add_app_page", "AppRoute") =>
        /\ OneErrorIssue
        /\ get_index_of(result, last.key) = get_index_of(last.before, last.key)
        /\ After.type = "AppRoute"
        /\ After.original_name = Before.original_name
        /\ After.path = Before.path

C2_Witness ==
    /\ CalledOn("add_app_page", "AppRoute")
    /\ last.original_name # Before.original_name

\* C3: a Route registered at a key that holds a Route emits an error issue
\* and leaves the first-registered Route (original_name and path) in place.
C3_RouteOnRouteKeepsFirst ==
    CalledOn("add_app_route", "AppRoute") =>
        /\ OneErrorIssue
        /\ get_index_of(result, last.key) = get_index_of(last.before, last.key)
        /\ After.type = "AppRoute"
        /\ After.original_name = Before.original_name
        /\ After.path = Before.path

C3_Witness ==
    /\ CalledOn("add_app_route", "AppRoute")
    /\ last.original_name # Before.original_name
    /\ last.arg # Before.path

\* C4: a Page registered at a key that holds a Page of another original_name
\* emits an error issue and leaves the existing Page (original_name and
\* loader tree) unchanged; the new loader tree is not merged in.
C4_PageNameMismatchKeepsFirst ==
    (CalledOn("add_app_page", "AppPage") /\ Before.original_name # last.original_name) =>
        /\ OneErrorIssue
        /\ get_index_of(result, last.key) = get_index_of(last.before, last.key)
        /\ After.type = "AppPage"
        /\ After.original_name = Before.original_name
        /\ After.loader_tree = Before.loader_tree

C4_Witness ==
    /\ CalledOn("add_app_page", "AppPage")
    /\ Before.original_name # last.original_name
    /\ last.arg # Before.loader_tree
    /\ merge_loader_trees(Before.loader_tree, last.arg) # Before.loader_tree

\* the keys of a map, in order
MapKeys(map) == [i \in 1..Len(map) |-> map[i].key]

\* C5: a Page registered at a key that holds a Page of the same
\* original_name emits no issue; the entry's loader tree becomes
\* merge(existing, new), the existing tree being the left operand, and the
\* key, its original_name and its place in the table stay as they were.
C5_PageSameNameMerges ==
    (CalledOn("add_app_page", "AppPage") /\ Before.original_name = last.original_name) =>
        /\ last.emitted = <<>>
        /\ MapKeys(result) = MapKeys(last.before)
        /\ After.type = "AppPage"
        /\ After.original_name = Before.original_name
        /\ After.loader_tree = merge_loader_trees(Before.loader_tree, last.arg)
        /\ MapKeys(After.loader_tree.parallel_routes) =
               MapKeys(Before.loader_tree.parallel_routes)
                   \o SelectSeq(MapKeys(last.arg.parallel_routes),
                          LAMBDA k : get_index_of(Before.loader_tree.parallel_routes, k) = 0)

C5_Witness ==
    /\ CalledOn("add_app_page", "AppPage")
    /\ Before.original_name = last.original_name
    /\ MapKeys(last.arg.parallel_routes) # MapKeys(Before.loader_tree.parallel_routes)
    /\ After.loader_tree # Before.loader_tree
    /\ After.loader_tree # last.arg

(***************************************************************************)
(* Properties of a resolution pass.                                        *)
(***************************************************************************)
\* the pass has run and returned its table
Resolved == entrypoints # None /\ entrypoints[1].ok

\* the Entrypoints table of the pass, and the issues the pass emitted
Table == entrypoints[1].value.result

PassIssues == entrypoints[1].value.emitted

\* every file a Components value refers to
FilesOfComponents(c) ==
    Range(c.page) \cup Range(c.layout) \cup Range(c.error) \cup Range(c.loading)
        \cup Range(c.template) \cup Range(c.not_found) \cup Range(c.default)
        \cup Range(c.route)
        \cup {x.path : x \in Range(c.metadata.icon) \cup Range(c.metadata.apple)
                           \cup Range(c.metadata.twitter)
                           \cup Range(c.metadata.open_graph)
                           \cup Range(c.metadata.favicon)
                           \cup Range(c.metadata.manifest)}

RECURSIVE FilesOfLoaderTree(_)
FilesOfLoaderTree(t) ==
    FilesOfComponents(t.components)
        \cup UNION {FilesOfLoaderTree(r.value) : r \in Range(t.parallel_routes)}

FilesOfEntrypoint(e) ==
    IF e.type = "AppPage" THEN FilesOfLoaderTree(e.loader_tree) ELSE {e.path}

RECURSIVE FilesOfDirectoryTree(_)
FilesOfDirectoryTree(t) ==
    FilesOfComponents(t.value.components)
        \cup UNION {FilesOfDirectoryTree(s.value) : s \in Range(t.value.subdirectories)}

\* a directory of the snapshot that is, or lies beneath, a directory whose
\* on-disk name starts with an underscore
BeneathPrivate(dir) == \E i \in 1..Len(dir) : Head(dir[i]) = "_"

\* the snapshot without its underscore directories and all beneath them
WithoutPrivate(snap) ==
    [d \in {d \in DOMAIN snap : ~BeneathPrivate(d)} |->
        SelectSeq(snap[d], LAMBDA e : ~(e.kind = "Directory" /\ Head(e.name) = "_"))]

\* the entries of kind File of a directory named stem.ext, ext a page extension
SpecialFiles(snap, dir, stem) ==
    {e.name : e \in {e \in Range(snap[dir]) :
                 /\ e.kind = "File"
                 /\ \E x \in Range(PageExtensions) : e.name = stem \o <<".">> \o x}}

\* C7: a directory whose on-disk name starts with '_' and everything beneath
\* it contributes nothing: the DirectoryTree and the Entrypoints are those of
\* the snapshot without it, and no file they refer to lies beneath it.
C7_PrivateContributesNothing ==
    Resolved =>
        /\ directory_tree[1] =
               get_directory_tree(WithoutPrivate(snapshot), <<>>, PageExtensions)
        /\ entrypoints[1] = get_entrypoints(WithoutPrivate(snapshot), PageExtensions)
        /\ \A f \in FilesOfDirectoryTree(directory_tree[1])
                      \cup UNION {FilesOfEntrypoint(e.value) : e \in Range(Table)} :
               f.fs = "app_dir" => ~BeneathPrivate(SubSeq(f.path, 1, Len(f.path) - 1))

C7_Witness ==
    /\ Resolved
    /\ Table # <<>>
    /\ \E d \in DOMAIN snapshot :
           /\ BeneathPrivate(d)
           /\ SpecialFiles(snapshot, d, S_page) \cup SpecialFiles(snapshot, d, S_route) # {}

\* the directories of the snapshot holding a file of this special name
DirsWith(stem) == {d \in DOMAIN snapshot : SpecialFiles(snapshot, d, stem) # {}}

\* the entries of the table under a key
EntriesAt(key) == {i \in 1..Len(Table) : Table[i].key = key}

\* the bare leaf of a page file: segment __PAGE__, no slots, and Components
\* holding only that file
IsPageLeafOf(t, dir) ==
    /\ t.segment = S_PAGE
    /\ t.parallel_routes = <<>>
    /\ \E name \in SpecialFiles(snapshot, dir, S_page) :
           t.components = [ComponentsDefault EXCEPT !.page = Some(join(dir, name))]

\* C9: with a page file in the root and a page file in its @modal
\* subdirectory (and no route or default file, nor a page file elsewhere),
\* Entrypoints has a single Page entry for "/", whose root node has exactly
\* the slots modal and children, each a __PAGE__ leaf holding its page file.
C9_ModalAndChildrenSlots ==
    ( /\ Resolved
      /\ DirsWith(S_page) = {<<>>, <<D_modal>>}
      /\ DirsWith(S_route) = {}
      /\ DirsWith(S_default) = {} ) =>
        /\ Cardinality(EntriesAt(S_slash)) = 1
        /\ \A i \in EntriesAt(S_slash) :
               LET e == Table[i].value
                   slots == e.loader_tree.parallel_routes
               IN  /\ e.type = "AppPage"
                   /\ Len(slots) = 2
                   /\ Range(MapKeys(slots)) = {S_children, <<"m", "o", "d", "a", "l">>}
                   /\ \A s \in Range(slots) :
                          IsPageLeafOf(s.value,
                              IF s.key = S_children THEN <<>> ELSE <<D_modal>>)

C9_Witness ==
    /\ Resolved
    /\ DirsWith(S_page) = {<<>>, <<D_modal>>}
    /\ DirsWith(S_route) = {}
    /\ DirsWith(S_default) = {}

\* C10: with only a not-found file in the root, Entrypoints holds exactly
\* the keys /not-found and /_not-found, both Page entries with the same
\* loader tree: the root segment with the root's non-leaf components, and a
\* children slot holding a __DEFAULT__ leaf with the built-in default.
C10_RootNotFoundEntries ==
    ( /\ Resolved
      /\ DOMAIN snapshot = {<<>>}
      /\ Len(snapshot[<<>>]) = 1
      /\ SpecialFiles(snapshot, <<>>, S_not_found) # {} ) =>
        /\ MapKeys(Table) = <<S_slash_not_found, S_slash_underscore_not_found>>
        /\ \A i \in 1..Len(Table) :
               /\ Table[i].value.type = "AppPage"
               /\ Table[i].value.original_name = Table[i].key
               /\ Table[i].value.loader_tree =
                      [segment |-> <<>>,
                       parallel_routes |->
                           <<[key |-> S_children,
                              value |->
                                  [segment |-> S_DEFAULT,
                                   parallel_routes |-> <<>>,
                                   components |->
                                       [ComponentsDefault EXCEPT
                                            !.default = Some(parallel_route_default)]]]>>,
                       components |->
                           [ComponentsDefault EXCEPT
                                !.not_found =
                                    Some(join(<<>>, snapshot[<<>>][1].name))]]
        /\ PassIssues = <<>>

C10_Witness ==
    /\ Resolved
    /\ DOMAIN snapshot = {<<>>}
    /\ Len(snapshot[<<>>]) = 1
    /\ SpecialFiles(snapshot, <<>>, S_not_found) # {}
    /\ Len(Table) = 2

\* the key a directory's own entries are stored under: "/" and the names of
\* the directories leading to it that are neither (groups) nor @slots
RECURSIVE RouteKeyFrom(_, _)
RouteKeyFrom(prefix, names) ==
    IF names = <<>> THEN prefix
    ELSE LET n == Head(names)
             skipped == Head(n) = "@" \/ (Head(n) = "(" /\ n[Len(n)] = ")")
         IN  RouteKeyFrom(IF skipped THEN prefix
                          ELSE IF prefix = S_slash THEN prefix \o n
                          ELSE prefix \o S_slash \o n,
                          Tail(names))

RouteKey(dir) == RouteKeyFrom(S_slash, dir)

\* the page, default and route files the pass registers
Registrants ==
    {r \in [dir : {d \in DOMAIN snapshot : ~BeneathPrivate(d)},
            stem : {S_page, S_default, S_route}] :
        SpecialFiles(snapshot, r.dir, r.stem) # {}}

\* two registrants of one key conflict when one of them is a route
InConflict(r) ==
    \E q \in Registrants :
        /\ q # r
        /\ RouteKey(q.dir) = RouteKey(r.dir)
        /\ (q.stem = S_route \/ r.stem = S_route)

\* the last call was a conflicting registration
ConflictingCall ==
    /\ last.op # "none"
    /\ get_index_of(last.before, last.key) # 0
    /\ ~( /\ last.op = "add_app_page"
          /\ Before.type = "AppPage"
          /\ Before.original_name = last.original_name )

\* C6: a routing conflict never aborts resolution.  Every registration call
\* returns success, emits exactly one issue, of severity Error, when it is
\* a conflicting one (and none otherwise), and leaves the entries of the
\* other keys alone; a pass over a snapshot with conflicts still returns its
\* table, which holds an entry of the right variant under the key of every
\* non-conflicting page, default or route file (for a route file, the file
\* itself), and the pass emits issues, all errors, exactly when files conflict.
C6_ConflictsNeverAbort ==
    /\ last.op # "none" =>
           /\ last.ret = "Ok"
           /\ ConflictingCall => OneErrorIssue
           /\ ~ConflictingCall => last.emitted = <<>>
           /\ get_index_of(result, last.key) # 0
           /\ \A i \in 1..Len(last.before) :
                  last.before[i].key # last.key => result[i] = last.before[i]
    /\ entrypoints # None =>
           /\ entrypoints[1].ok
           /\ \A i \in 1..Len(PassIssues) : PassIssues[i].severity = "Error"
           /\ (PassIssues # <<>>) <=> (\E r \in Registrants : InConflict(r))
           /\ \A r \in Registrants :
                  ~InConflict(r) =>
                      /\ Cardinality(EntriesAt(RouteKey(r.dir))) = 1
                      /\ \A i \in EntriesAt(RouteKey(r.dir)) :
                             /\ Table[i].value.type =
                                    (IF r.stem = S_route THEN "AppRoute" ELSE "AppPage")
                             /\ Table[i].value.original_name = RouteKey(r.dir)
                             /\ r.stem = S_route =>
                                    \E name \in SpecialFiles(snapshot, r.dir, S_route) :
                                        Table[i].value.path = join(r.dir, name)

C6_Witness ==
    /\ Resolved
    /\ PassIssues # <<>>
    /\ \E r \in Registrants : ~InConflict(r)
    /\ \E r \in Registrants : InConflict(r)

(***************************************************************************)
(* Properties of the metadata sequences.                                   *)
(***************************************************************************)
\* the decimal suffix of the stem of a file name (<<>> when it has none)
SuffixOf(name) ==
    LET dot == CHOOSE i \in 1..Len(name) :
                   name[i] = "." /\ \A j \in 1..(i - 1) : name[j] # "."
        stem == SubSeq(name, 1, dot - 1)
        k == CHOOSE k \in 0..Len(stem) :
                 /\ \A j \in (k + 1)..Len(stem) : stem[j] \in Range(Digits)
                 /\ k > 0 => stem[k] \notin Range(Digits)
    IN  SubSeq(stem, k + 1, Len(stem))

RECURSIVE StripZeros(_)
StripZeros(digits) ==
    IF Len(digits) > 1 /\ Head(digits) = "0" THEN StripZeros(Tail(digits)) ELSE digits

\* a < b for the numbers two non-empty runs of decimal digits denote
NumLess(a, b) ==
    LET x == StripZeros(a)
        y == StripZeros(b)
    IN  Len(x) < Len(y) \/ (Len(x) = Len(y) /\ str_lt(x, y))

\* the files of the root's icon sequence, in its order
IconNames ==
    LET icon == directory_tree[1].value.components.metadata.icon
    IN  [i \in 1..Len(icon) |-> icon[i].path.path[Len(icon[i].path.path)]]

\* the place of a file in the listing of the root
ListedAt(name) == CHOOSE i \in 1..Len(snapshot[<<>>]) : snapshot[<<>>][i].name = name

\* the order C8 states, for the files a and b with a before b in a sequence
SuffixOrdered(a, b) ==
    /\ ~(SuffixOf(a) # <<>> /\ SuffixOf(b) = <<>>)
    /\ (SuffixOf(a) # <<>> /\ SuffixOf(b) # <<>>) => ~NumLess(SuffixOf(b), SuffixOf(a))
    /\ ( \/ (SuffixOf(a) = <<>> /\ SuffixOf(b) = <<>>)
         \/ /\ SuffixOf(a) # <<>> /\ SuffixOf(b) # <<>>
            /\ ~NumLess(SuffixOf(a), SuffixOf(b)) )
           => ListedAt(a) < ListedAt(b)

\* C8: a metadata sequence is ordered by the numeric suffix of the file
\* stem, ascending; the files without a suffix come before every file with
\* one, and files with equal sort keys keep their listing order.
C8_MetadataOrderedBySuffix ==
    Resolved =>
        /\ Range(IconNames) = {e.name : e \in Range(snapshot[<<>>])}
        /\ \A i, j \in 1..Len(IconNames) :
               i < j => SuffixOrdered(IconNames[i], IconNames[j])

\* the same order for the files whose suffix, if any, is below 2^31
MetadataOrderedBySuffixWithinI32 ==
    Resolved =>
        \A i, j \in 1..Len(IconNames) :
            ( /\ i < j
              /\ is_some(parse_i32(SuffixOf(IconNames[i]))) \/ SuffixOf(IconNames[i]) = <<>>
              /\ is_some(parse_i32(SuffixOf(IconNames[j]))) \/ SuffixOf(IconNames[j]) = <<>> )
                => SuffixOrdered(IconNames[i], IconNames[j])

(***************************************************************************)
(* Properties of the walk over the asset graph.                            *)
(***************************************************************************)
\* the entries the running walk was given
WalkEntries == store.roots

\* the assets one reference away from a set of assets
Referenced(S) == UNION {Range(references[a]) : a \in S}

\* the assets reachable from a set of assets, the set included
RECURSIVE Reachable(_)
Reachable(S) == IF Referenced(S) \subseteq S THEN S ELSE Reachable(S \cup Referenced(S))

\* the places of an asset in the collected sequence
PlacesOf(asset) == {i \in 1..Len(all_assets) : all_assets[i] = asset}

\* an asset that a chain of one or more references leads back to
OnCycle(asset) == asset \in Reachable(Range(references[asset]))

\* an asset that two distinct reachable assets reference
Shared(asset) ==
    \E a, b \in Reachable(Range(WalkEntries)) :
        /\ a # b
        /\ asset \in Range(references[a])
        /\ asset \in Range(references[b])

\* C11: all_assets_from_entries terminates on every finite reference graph,
\* cycles and diamonds included, and returns exactly the assets reachable from
\* the entries (entries included), each distinct asset exactly once.
C11_WalkTerminatesWithReachableSet ==
    /\ [](pc = "collected" =>
            /\ Range(all_assets) = Reachable(Range(WalkEntries))
            /\ \A asset \in Range(all_assets) : Cardinality(PlacesOf(asset)) = 1)
    /\ (pc = "visit" ~> pc = "collected")

\* C11 witness: a finished walk over a graph with a cycle and with an asset
\* that two reachable assets reference
C11_Witness ==
    /\ pc = "collected"
    /\ \E asset \in Range(all_assets) : OnCycle(asset)
    /\ \E asset \in Range(all_assets) : Shared(asset)

\* the reachable part of the graph has no cycle
Acyclic == \A asset \in Reachable(Range(WalkEntries)) : ~OnCycle(asset)

\* the diamond entry -> a, entry -> b, a -> c, b -> c
Diamond ==
    /\ Range(references[A_entry]) = {A_a, A_b}
    /\ references[A_a] = <<A_c>>
    /\ references[A_b] = <<A_c>>
    /\ references[A_c] = <<>>

\* asset b comes before asset a in the collected sequence
Precedes(b, a) ==
    \E i \in PlacesOf(b), j \in PlacesOf(a) : i < j

\* C12: the sequence all_assets_from_entries returns is dependency-ordered:
\* for every reference edge A -> B between reachable assets of an acyclic
\* graph, B appears before A; on the diamond c appears before both a and b.
C12_DependenciesFirst ==
    pc = "collected" =>
        /\ Acyclic =>
               \A a \in Reachable(Range(WalkEntries)) :
                   \A b \in Range(references[a]) : Precedes(b, a)
        /\ Diamond /\ A_entry \in Range(WalkEntries) =>
               Precedes(A_c, A_a) /\ Precedes(A_c, A_b)

\* C12 witness: a finished walk over the diamond
C12_Witness ==
    /\ pc = "collected"
    /\ Diamond
    /\ WalkEntries = <<A_entry>>

(***************************************************************************)
(* Properties of the emitter.                                              *)
(***************************************************************************)
\* the segments of p below root, <<>> when p is not strictly below root
SuffixBelow(p, root) ==
    IF /\ p.fs = root.fs
       /\ \E rest \in {SubSeq(p.path, k, Len(p.path)) : k \in 2..Len(p.path)} :
              p.path = root.path \o rest
    THEN SubSeq(p.path, Len(root.path) + 1, Len(p.path))
    ELSE <<>>

\* the paths written for an asset so far
WrittenFor(asset) ==
    [k \in {k \in 1..Len(writes) : writes[k].content = asset} |-> writes[k].path]

\* the one write an asset needs: its own path under node_root, else its path
\* moved from client_relative_path to client_output_path, else none
WriteNeeded(asset) ==
    IF SuffixBelow(asset.path, node_root[1]) # <<>>
    THEN {asset.path}
    ELSE IF SuffixBelow(asset.path, ClientRelativePath) # <<>>
    THEN {[fs |-> ClientOutputPath.fs,
           path |-> ClientOutputPath.path
                        \o SuffixBelow(asset.path, ClientRelativePath)]}
    ELSE {}

\* C13: emit_assets makes exactly one decision per asset: inside node_root
\* the asset is written at its own path (also when inside
\* client_relative_path); otherwise inside client_relative_path it is written
\* at client_output_path plus its suffix below client_relative_path
\* (client/x/y.js goes to out/_next/x/y.js); otherwise nothing is written.
C13_OneDecisionPerAsset ==
    pc \in {"emit", "emitted"} =>
        /\ \A i \in 1..Len(assets) :
               LET written == WrittenFor(assets[i])
               IN  IF completions[i] = "pending"
                   THEN DOMAIN written = {}
                   ELSE /\ Cardinality(DOMAIN written)
                              = Cardinality(WriteNeeded(assets[i]))
                        /\ \A k \in DOMAIN written :
                               written[k] \in WriteNeeded(assets[i])
        /\ \A k \in 1..Len(writes) :
               /\ writes[k].content \in Range(assets)
               /\ writes[k].content = A_a =>
                      writes[k].path.path = <<"out", "_next", "x", "y.js">>

\* C13 witness: a finished emit_assets over an asset inside both roots, an
\* asset inside client_relative_path only and an asset outside both
C13_Witness ==
    /\ pc = "emitted"
    /\ \E i, j, k \in 1..Len(assets) :
           /\ SuffixBelow(assets[i].path, node_root[1]) # <<>>
           /\ SuffixBelow(assets[i].path, ClientRelativePath) # <<>>
           /\ SuffixBelow(assets[j].path, node_root[1]) = <<>>
           /\ SuffixBelow(assets[j].path, ClientRelativePath) # <<>>
           /\ SuffixBelow(assets[k].path, node_root[1]) = <<>>
           /\ SuffixBelow(assets[k].path, ClientRelativePath) = <<>>
    /\ Len(writes) = 2

(***************************************************************************)
(* Properties of the global metadata.                                      *)
(***************************************************************************)
\* the names listed in the app directory
RootNames == {snapshot[<<>>][i].name : i \in 1..Len(snapshot[<<>>])}

\* the static file and the page-extension files of the three slots
GlobalSlots ==
    {[slot |-> "favicon", static |-> F_favicon_ico, dynamic |-> {F_favicon_tsx}],
     [slot |-> "robots", static |-> F_robots_txt, dynamic |-> {F_robots_ts}],
     [slot |-> "sitemap", static |-> F_sitemap_xml, dynamic |-> {F_sitemap_ts}]}

\* C15: in get_global_metadata, for each of the slots favicon, robots and
\* sitemap, whenever the root directory holds both the static file of the slot
\* and a page-extension file of the same stem, the slot holds the Static item,
\* in whatever order the entries are listed.
C15_StaticOverridesDynamic ==
    global_metadata # None /\ global_metadata[1].ok =>
        \A s \in GlobalSlots :
            s.static \in RootNames /\ s.dynamic \cap RootNames # {} =>
                global_metadata[1].value[s.slot]
                    = Some(MetadataItemStatic(join(<<>>, s.static)))

\* with the static file listed after the page-extension file the slot does
\* hold the Static item
StaticListedLastWins ==
    global_metadata # None /\ global_metadata[1].ok =>
        \A s \in GlobalSlots :
            /\ s.static \in RootNames
            /\ \A d \in s.dynamic \cap RootNames : ListedAt(d) < ListedAt(s.static)
            => global_metadata[1].value[s.slot]
                   = Some(MetadataItemStatic(join(<<>>, s.static)))

(***************************************************************************)
(* Properties of the loader trees of a resolution pass.                    *)
(***************************************************************************)
\* every node of a loader tree that has a parallel-route child has no page,
\* default or route component
RECURSIVE NonLeafsStripped(_)
NonLeafsStripped(t) ==
    /\ t.parallel_routes # <<>> =>
           /\ t.components.page = None
           /\ t.components.default = None
           /\ t.components.route = None
    /\ \A r \in Range(t.parallel_routes) : NonLeafsStripped(r.value)

\* C19: in every LoaderTree stored in Entrypoints, for every directory
\* layout, a node that has at least one parallel-route child has its page,
\* default and route component slots all absent.
C19_NonLeafNodesHaveNoLeafComponents ==
    Resolved =>
        \A i \in 1..Len(Table) :
            Table[i].value.type = "AppPage" =>
                NonLeafsStripped(Table[i].value.loader_tree)

\* a sequence of strings joined into one, each preceded by "/"
RECURSIVE SlashJoined(_)
SlashJoined(names) ==
    IF names = <<>> THEN <<>>
    ELSE <<"/">> \o Head(names) \o SlashJoined(Tail(names))

\* the names of the DirectoryTree nodes leading to a directory of the
\* snapshot: the child-map name of each directory on the way
NodeNames(dir) == [i \in 1..Len(dir) |-> get_underscore_normalized_path(dir[i])]

IsGroupName(name) == name # <<>> /\ Head(name) = "(" /\ name[Len(name)] = ")"

IsSlotName(name) == name # <<>> /\ Head(name) = "@"

\* "/" followed by the "/"-joined names that are neither groups nor slots
KeyOf(dir) ==
    LET kept == SelectSeq(NodeNames(dir),
                          LAMBDA name : ~IsGroupName(name) /\ ~IsSlotName(name))
    IN  IF kept = <<>> THEN <<"/">> ELSE SlashJoined(kept)

\* the directory a file lies in
DirOf(file) == SubSeq(file.path, 1, Len(file.path) - 1)

\* the page, default and route files a loader tree holds
RECURSIVE LeafFilesOfLoaderTree(_)
LeafFilesOfLoaderTree(t) ==
    Range(t.components.page) \cup Range(t.components.default)
        \cup Range(t.components.route)
        \cup UNION {LeafFilesOfLoaderTree(r.value) : r \in Range(t.parallel_routes)}

LeafFilesOfEntrypoint(e) ==
    IF e.type = "AppPage" THEN LeafFilesOfLoaderTree(e.loader_tree) ELSE {e.path}

\* C17: the key of a page, default or route file in directory d1/.../dn is
\* "/" followed by the "/"-joined names of exactly those di that are neither
\* route groups nor parallel slots, in order, and "/" when there is none:
\* every such file an entry holds lies in a directory of the entry's key, and
\* every directory with such a file has an entry under its key.
C17_KeySkipsGroupsAndSlots ==
    Resolved =>
        /\ \A i \in 1..Len(Table) :
               \A file \in LeafFilesOfEntrypoint(Table[i].value) :
                   Table[i].key = KeyOf(DirOf(file))
        /\ \A r \in Registrants : EntriesAt(KeyOf(r.dir)) # {}

\* C17 witness: an entry holding a file two directories deep, one of them a
\* group or a slot and the other one adding its segment to the key
C17_Witness ==
    /\ Resolved
    /\ \E i \in 1..Len(Table) :
           \E file \in LeafFilesOfEntrypoint(Table[i].value) :
               /\ Len(DirOf(file)) = 2
               /\ Table[i].key = <<"/", "_", "b">>

\* the keys of the not-found entries
NotFoundKeys == {S_slash_not_found, S_slash_underscore_not_found}

\* the directories of the snapshot, outside private ones, with a not-found file
DirsWithNotFound ==
    {d \in DirsWith(S_not_found) : ~BeneathPrivate(d)}

\* C16: the /not-found and /_not-found entries are synthesized only from a
\* not-found file of the root directory: a not-found file in a subdirectory
\* (a route group or a parallel slot directly under the root included)
\* registers neither.
C16_NotFoundOnlyFromRoot ==
    Resolved =>
        /\ (\E i \in 1..Len(Table) : Table[i].key \in NotFoundKeys)
               => <<>> \in DirsWithNotFound
        /\ \A i \in 1..Len(Table) :
               Table[i].key \in NotFoundKeys =>
                   \A file \in FilesOfEntrypoint(Table[i].value) :
                       file = parallel_route_default \/ DirOf(file) = <<>>

\* the not-found entries exist exactly when a directory whose path prefix is
\* "/" has a not-found file, and hold files of such directories only
NotFoundOnlyUnderRootPrefix ==
    Resolved =>
        /\ (\E i \in 1..Len(Table) : Table[i].key \in NotFoundKeys)
               <=> (\E d \in DirsWithNotFound : KeyOf(d) = S_slash)
        /\ \A i \in 1..Len(Table) :
               Table[i].key \in NotFoundKeys =>
                   \A file \in FilesOfEntrypoint(Table[i].value) :
                       file = parallel_route_default \/ KeyOf(DirOf(file)) = S_slash

(***************************************************************************)
(* Properties of merge_loader_trees.                                       *)
(***************************************************************************)
\* the tree under a slot name (the slot is present)
SlotOf(t, key) == t.parallel_routes[get_index_of(t.parallel_routes, key)].value

HasSlot(t, key) == key \in Range(MapKeys(t.parallel_routes))

\* a's value if present, else b's
LeftFirst(a, b) == IF a # None THEN a ELSE b

\* the merge of two trees as the claim words it
RECURSIVE MergedTree(_, _)
MergedTree(a, b) ==
    LET keys == MapKeys(a.parallel_routes)
                    \o SelectSeq(MapKeys(b.parallel_routes),
                                 LAMBDA key : ~HasSlot(a, key))
        ca == a.components
        cb == b.components
    IN  [segment |-> IF a.segment # <<>> THEN a.segment ELSE b.segment,
         parallel_routes |->
             [i \in 1..Len(keys) |->
                 [key |-> keys[i],
                  value |-> IF HasSlot(a, keys[i]) /\ HasSlot(b, keys[i])
                            THEN MergedTree(SlotOf(a, keys[i]), SlotOf(b, keys[i]))
                            ELSE IF HasSlot(a, keys[i]) THEN SlotOf(a, keys[i])
                            ELSE SlotOf(b, keys[i])]],
         components |->
             [page |-> LeftFirst(ca.page, cb.page),
              layout |-> LeftFirst(ca.layout, cb.layout),
              error |-> LeftFirst(ca.error, cb.error),
              loading |-> LeftFirst(ca.loading, cb.loading),
              template |-> LeftFirst(ca.template, cb.template),
              not_found |-> LeftFirst(ca.not_found, cb.not_found),
              default |-> LeftFirst(ca.default, cb.default),
              route |-> LeftFirst(ca.route, cb.route),
              metadata |->
                  [icon |-> ca.metadata.icon \o cb.metadata.icon,
                   apple |-> ca.metadata.apple \o cb.metadata.apple,
                   twitter |-> ca.metadata.twitter \o cb.metadata.twitter,
                   open_graph |-> ca.metadata.open_graph \o cb.metadata.open_graph,
                   favicon |-> ca.metadata.favicon \o cb.metadata.favicon,
                   manifest |-> LeftFirst(ca.metadata.manifest, cb.metadata.manifest)]]]

\* C18: merge_loader_trees(a, b) yields a's segment if non-empty else b's;
\* a's slots in a's order followed by b's slots not in a, a slot of both
\* holding the merge of a's child with b's child; each optional Components
\* field a's value if present else b's; each metadata list a's items followed
\* by b's; the manifest a's if present else b's.
C18_MergeLoaderTrees ==
    last.op = "merge_loader_trees" =>
        last.merged = MergedTree(last.tree1, last.tree2)

\* C18 witness: a merge where b gives the segment, a slot is in both trees
\* with children of their own to merge, b has a slot a has not, and both
\* sides have a layout, icons and page-level components
C18_Witness ==
    /\ last.op = "merge_loader_trees"
    /\ last.tree1.segment = <<>>
    /\ last.tree2.segment # <<>>
    /\ \E key \in Range(MapKeys(last.tree1.parallel_routes)) :
           /\ HasSlot(last.tree2, key)
           /\ SlotOf(last.tree1, key).parallel_routes # <<>>
    /\ \E key \in Range(MapKeys(last.tree2.parallel_routes)) :
           ~HasSlot(last.tree1, key)
    /\ last.tree1.components.layout # None
    /\ last.tree2.components.layout # None
    /\ last.tree1.components.layout # last.tree2.components.layout
    /\ last.tree1.components.metadata.icon # <<>>
    /\ last.tree2.components.metadata.icon # <<>>

(***************************************************************************)
(* Properties of the tree a directory registers for its own files.         *)
(***************************************************************************)
\* the name the resolver is given for a directory: "" for the root
NameOf(dir) == IF dir = <<>> THEN <<>> ELSE NodeNames(dir)[Len(dir)]

\* the DirectoryTree node of a directory of the snapshot
RECURSIVE TreeNodeAt(_, _)
TreeNodeAt(node, names) ==
    IF names = <<>> THEN node
    ELSE TreeNodeAt(
             node.subdirectories[get_index_of(node.subdirectories, Head(names))]
                 .value.value,
             Tail(names))

\* the part of an entry's loader tree that a directory below contributed:
\* every directory on the way down that is no parallel slot has put one node
\* with a single slot around it
RECURSIVE Unwrapped(_, _)
Unwrapped(t, names) ==
    IF names = <<>> THEN t
    ELSE IF IsSlotName(Head(names)) THEN Unwrapped(t, Tail(names))
    ELSE Unwrapped(t.parallel_routes[1].value, Tail(names))

\* the names of the directories above a directory, the root ("") first
NamesAbove(dir) == [k \in 1..Len(dir) |-> NameOf(SubSeq(dir, 1, k - 1))]

\* a page or default file that alone registers under its key
AloneAtKey(r) ==
    /\ r \in Registrants
    /\ r.stem \in {S_page, S_default}
    /\ \A q \in Registrants : KeyOf(q.dir) = KeyOf(r.dir) => q = r

\* the bare leaf of a page or default file of a directory
BareLeaf(r) ==
    LET file == join(r.dir, CHOOSE name \in SpecialFiles(snapshot, r.dir, r.stem) : TRUE)
    IN  [segment |-> IF r.stem = S_page THEN S_PAGE ELSE S_DEFAULT,
         parallel_routes |-> <<>>,
         components |->
             IF r.stem = S_page
             THEN [ComponentsDefault EXCEPT !.page = Some(file)]
             ELSE [ComponentsDefault EXCEPT !.default = Some(file)]]

\* C20: the loader tree a directory registers for its own page file (resp.
\* default file) is, in a parallel slot, a bare leaf with segment __PAGE__
\* (resp. __DEFAULT__), no slots and Components holding only that file;
\* otherwise a node with the directory name as segment, the directory's
\* Components minus page, default and route, and the single slot children
\* holding that bare leaf.
C20_OwnLoaderTree ==
    Resolved =>
        \A r \in Registrants :
            AloneAtKey(r) =>
                \A i \in EntriesAt(KeyOf(r.dir)) :
                    Unwrapped(Table[i].value.loader_tree, NamesAbove(r.dir)) =
                        IF IsSlotName(NameOf(r.dir))
                        THEN BareLeaf(r)
                        ELSE [segment |-> NameOf(r.dir),
                              parallel_routes |->
                                  <<[key |-> S_children, value |-> BareLeaf(r)]>>,
                              components |->
                                  [TreeNodeAt(directory_tree[1].value,
                                              NodeNames(r.dir)).components
                                      EXCEPT !.page = None, !.default = None,
                                             !.route = None]]

\* C20 witness: a default file alone in a parallel slot, and a page file alone
\* in a directory that adds a path segment
C20_Witness ==
    /\ Resolved
    /\ \E r \in Registrants :
           AloneAtKey(r) /\ r.stem = S_default /\ IsSlotName(NameOf(r.dir))
    /\ \E r \in Registrants :
           /\ AloneAtKey(r)
           /\ r.stem = S_page
           /\ r.dir # <<>>
           /\ ~IsSlotName(NameOf(r.dir))

(***************************************************************************)
(* Properties of the nesting of a subdirectory's entries.                  *)
(***************************************************************************)
\* the tree a directory registers for its own page or default file
OwnTree(r) ==
    IF IsSlotName(NameOf(r.dir))
    THEN BareLeaf(r)
    ELSE [segment |-> NameOf(r.dir),
          parallel_routes |-> <<[key |-> S_children, value |-> BareLeaf(r)]>>,
          components |->
              [TreeNodeAt(directory_tree[1].value, NodeNames(r.dir)).components
                  EXCEPT !.page = None, !.default = None, !.route = None]]

\* the slot a directory's entries are put under by the level above
SlotNameOf(name) == IF IsSlotName(name) THEN Tail(name) ELSE S_children

\* a tree returned by directory dir[1..k] as the levels above register it,
\* the nearest level first: a parallel slot hands it on unchanged, any other
\* level puts a node of its own around it
RECURSIVE NestedAbove(_, _, _)
NestedAbove(dir, k, inner) ==
    IF k = 0 THEN inner
    ELSE LET parent == SubSeq(dir, 1, k - 1)
         IN  NestedAbove(dir, k - 1,
                 IF IsSlotName(NameOf(parent)) THEN inner
                 ELSE [segment |-> NameOf(parent),
                       parallel_routes |->
                           <<[key |-> SlotNameOf(NodeNames(dir)[k]),
                              value |-> inner]>>,
                       components |->
                           [TreeNodeAt(directory_tree[1].value,
                                       NodeNames(parent)).components
                               EXCEPT !.page = None, !.default = None,
                                      !.route = None]])

\* the chain root -children-> a -children-> b -children-> __PAGE__
IsPageChain(t, names) ==
    /\ t.segment = <<>>
    /\ MapKeys(t.parallel_routes) = <<S_children>>
    /\ t.parallel_routes[1].value.segment = names[1]
    /\ MapKeys(t.parallel_routes[1].value.parallel_routes) = <<S_children>>
    /\ t.parallel_routes[1].value.parallel_routes[1].value.segment = names[2]
    /\ MapKeys(t.parallel_routes[1].value.parallel_routes[1].value.parallel_routes)
           = <<S_children>>
    /\ t.parallel_routes[1].value.parallel_routes[1].value.parallel_routes[1]
           .value.segment = S_PAGE

\* C21: a Page entry returned by a subdirectory is registered unchanged by a
\* level that is a parallel slot, and otherwise nested under a new node whose
\* segment is the level's directory name, whose Components are the level's
\* minus page, default and route, and whose single slot is the subdirectory's
\* slot name (its name without @) if it is a parallel slot, else children:
\* the entry of a file alone under its key is its directory's own tree with
\* that step applied by every level above.  Hence a page under ordinary
\* directories a/b has the chain root -children-> a -children-> b
\* -children-> __PAGE__.
C21_SubdirectoryEntriesNested ==
    Resolved =>
        \A r \in Registrants :
            AloneAtKey(r) =>
                \A i \in EntriesAt(KeyOf(r.dir)) :
                    /\ Table[i].value.loader_tree =
                           NestedAbove(r.dir, Len(r.dir), OwnTree(r))
                    /\ ( /\ Len(r.dir) = 2
                         /\ r.stem = S_page
                         /\ \A k \in 1..2 : ~IsSlotName(NodeNames(r.dir)[k]) )
                           => IsPageChain(Table[i].value.loader_tree,
                                          NodeNames(r.dir))

\* C21 witness: a page alone under its key two ordinary directories deep
C21_Witness ==
    /\ Resolved
    /\ \E r \in Registrants :
           /\ AloneAtKey(r)
           /\ r.stem = S_page
           /\ Len(r.dir) = 2
           /\ \A k \in 1..2 : ~IsSlotName(NodeNames(r.dir)[k])
                                 /\ ~IsGroupName(NodeNames(r.dir)[k])

(***************************************************************************)
(* Properties of the key order of a resolution pass.                       *)
(***************************************************************************)
\* the on-disk names of the subdirectories of a directory the pass descends
\* into, whatever the order of the listing
SubdirectoryNames(dir) ==
    {e.name : e \in {e \in Range(snapshot[dir]) :
                         e.kind = "Directory" /\ Head(e.name) # "_"}}

\* a set of on-disk names in lexicographic order of their child-map names
RECURSIVE Lexicographic(_)
Lexicographic(names) ==
    IF names = {} THEN <<>>
    ELSE LET first == CHOOSE x \in names :
                          \A y \in names :
                              ~str_lt(get_underscore_normalized_path(y),
                                      get_underscore_normalized_path(x))
         IN  <<first>> \o Lexicographic(names \ {first})

\* the keys a directory registers itself: its own key for a page, default or
\* route file, then the not-found keys
OwnKeys(dir) ==
    (IF \E stem \in {S_page, S_default, S_route} :
            SpecialFiles(snapshot, dir, stem) # {}
     THEN <<KeyOf(dir)>> ELSE <<>>)
    \o (IF KeyOf(dir) = S_slash /\ SpecialFiles(snapshot, dir, S_not_found) # {}
        THEN <<S_slash_not_found, S_slash_underscore_not_found>> ELSE <<>>)

\* the keys in depth-first order, repeats included
RECURSIVE DepthFirstKeys(_)
RECURSIVE DepthFirstKeysOf(_, _)
DepthFirstKeysOf(dir, names) ==
    IF names = <<>> THEN <<>>
    ELSE DepthFirstKeys(Append(dir, Head(names)))
             \o DepthFirstKeysOf(dir, Tail(names))

DepthFirstKeys(dir) ==
    OwnKeys(dir) \o DepthFirstKeysOf(dir, Lexicographic(SubdirectoryNames(dir)))

\* a sequence with only the first occurrence of each element kept
RECURSIVE FirstOccurrences(_)
FirstOccurrences(list) ==
    IF list = <<>> THEN <<>>
    ELSE LET init == SubSeq(list, 1, Len(list) - 1)
             x == list[Len(list)]
         IN  IF x \in Range(init) THEN FirstOccurrences(init)
             ELSE Append(FirstOccurrences(init), x)

\* C22: the key order of Entrypoints is the depth-first traversal order: at
\* every directory level the keys registered by the directory itself (page,
\* default, route, then the not-found keys) precede the keys first
\* contributed by its subdirectories, and the subdirectories contribute in
\* lexicographic order of their child-map names, whatever the order of the
\* directory listings.
C22_KeysInDepthFirstOrder ==
    Resolved => MapKeys(Table) = FirstOccurrences(DepthFirstKeys(<<>>))

(***************************************************************************)
(* Properties of the children of a DirectoryTree node.                     *)
(***************************************************************************)
\* every subdirectory of dir the pass descends into is a child of the node,
\* under its name with %5F read as _, and so on below
RECURSIVE ChildrenKept(_, _)
ChildrenKept(node, dir) ==
    /\ Len(node.subdirectories) = Cardinality(SubdirectoryNames(dir))
    /\ \A name \in SubdirectoryNames(dir) :
           LET key == str_replace(name, <<"%", "5", "F">>, <<"_">>)
               i == get_index_of(node.subdirectories, key)
           IN  /\ i # 0
               /\ node.subdirectories[i].value =
                      get_directory_tree(snapshot, Append(dir, name), PageExtensions)
               /\ ChildrenKept(node.subdirectories[i].value.value, Append(dir, name))

\* C26: for every subdirectory entry of a directory whose name does not
\* start with _, the DirectoryTree node has a child keyed by the name with
\* %5F replaced by _, and that child is the tree of that subdirectory; the
\* number of children equals the number of such entries, so none is lost.
C26_EverySubdirectoryIsAChild ==
    (directory_tree # None /\ directory_tree[1].ok) =>
        ChildrenKept(directory_tree[1].value, <<>>)

(***************************************************************************)
(* Properties of failure.                                                  *)
(***************************************************************************)
\* the directory handles a pass reads: the app directory, and every
\* subdirectory entry, outside private directories, of a directory it reads
Handles ==
    {<<>>} \cup
    {Append(d, e.name) :
         <<d, e>> \in {<<d, e>> \in UNION {{<<d, e>> : e \in Range(snapshot[d])} :
                                               d \in DOMAIN snapshot} :
                           /\ e.kind = "Directory"
                           /\ ~BeneathPrivate(Append(d, e.name))}}

\* the result a DirectoryTree holds for a handle the pass reads
RECURSIVE TreeResultAt(_, _)
TreeResultAt(tree, names) ==
    IF names = <<>> THEN tree
    ELSE TreeResultAt(
             tree.value.subdirectories[
                 get_index_of(tree.value.subdirectories, Head(names))].value,
             Tail(names))

\* a failure carries an error and nothing else
IsFailure(res) == ~res.ok /\ DOMAIN res = {"ok", "error"}

\* C23: get_directory_tree and get_global_metadata fail with an error and
\* produce no tree when the given handle does not resolve to a directory;
\* the failure of a subdirectory's tree construction propagates to the
\* resolution pass that reads it, which then fails instead of returning a
\* partial Entrypoints table.
C23_NotADirectoryFails ==
    /\ directory_tree # None =>
           \A h \in Handles :
               LET res == TreeResultAt(directory_tree[1], h)
               IN  IF h \in DOMAIN snapshot THEN res.ok ELSE IsFailure(res)
    /\ global_metadata # None =>
           IF <<>> \in DOMAIN snapshot THEN global_metadata[1].ok
           ELSE IsFailure(global_metadata[1])
    /\ entrypoints # None =>
           IF Handles \subseteq DOMAIN snapshot THEN entrypoints[1].ok
           ELSE IsFailure(entrypoints[1])

\* C23 witness: the app directory has a page and a subdirectory that is gone;
\* the tree of the app directory is built, holding the failure of the
\* subdirectory, and the pass has failed
C23_Witness ==
    /\ entrypoints # None
    /\ ~entrypoints[1].ok
    /\ directory_tree[1].ok
    /\ SpecialFiles(snapshot, <<>>, S_page) # {}
    /\ global_metadata # None
    /\ global_metadata[1].ok

(***************************************************************************)
(* Properties of the completion of the emitter.                            *)
(***************************************************************************)
\* the writes the assets of the running emit_assets need
WritesNeeded ==
    {[content |-> assets[i], path |-> path] :
         <<i, path>> \in UNION {{<<i, path>> : path \in WriteNeeded(assets[i])} :
                                    i \in 1..Len(assets)}}

\* C24: the completion of emit_assets / emit_all_assets is reached only after
\* the write of every asset that required a write has completed, for every
\* order in which the writes complete; and no asset's write waits for
\* another's: while the emitter runs, every closure that has not run can run,
\* and every write started and not completed can complete.
C24_CompletionAfterAllWrites ==
    /\ pc = "emitted" => WritesNeeded \subseteq Range(finished)
    /\ pc = "emit" =>
           /\ \A i \in 1..Len(assets) :
                  completions[i] = "pending" => ENABLED EmitAsset(i)
           /\ \A write \in Range(writes) :
                  write \notin Range(finished) => ENABLED WriteCompletes(write)

\* C24 witness: emit_all_assets is done over a walk that collected an asset
\* before the assets referring to it, after three writes that completed in
\* another order than the one they were started in
C24_Witness ==
    /\ pc = "emitted"
    /\ all_assets = assets
    /\ Len(assets) >= 3
    /\ Len(finished) = 3
    /\ finished # writes

(***************************************************************************)
(* Properties of a pass whose levels are evaluated concurrently.           *)
(***************************************************************************)

\* C25: when the trees and the entrypoint maps of sibling subdirectories are
\* evaluated concurrently, the resulting Entrypoints (keys, key order,
\* entries retained on conflict, merged loader trees, and the issues) are the
\* same for every order in which the sibling evaluations complete: they are
\* those of the pass evaluated level after level over the DirectoryTree.
C25_CompletionOrderIrrelevant ==
    entrypoints # None =>
        entrypoints[1] = get_entrypoints(snapshot, PageExtensions)

\* C25 witness: of two sibling subdirectories that both register entries, the
\* later one of the child map has returned its map while the earlier one is
\* still running
C25_Witness ==
    /\ <<>> \in DOMAIN levels
    /\ \E i, j \in 1..Len(levels[<<>>].remaining) :
           LET first == <<levels[<<>>].remaining[i].key>>
               second == <<levels[<<>>].remaining[j].key>>
           IN  /\ i < j
               /\ first \in DOMAIN levels
               /\ levels[first].returned = None
               /\ levels[first].st.result # <<>>
               /\ second \in DOMAIN levels
               /\ levels[second].returned # None
               /\ levels[second].returned[1].value.result # <<>>

(***************************************************************************)
(* Properties of the suffixes of metadata files.                           *)
(***************************************************************************)
\* the place of a file in the root's icon sequence
PlaceOfIcon(name) == CHOOSE i \in 1..Len(IconNames) : IconNames[i] = name

\* C27: of two files of the same metadata kind in one directory whose stems
\* end in decimal suffixes m < n, the one with suffix m precedes the one with
\* suffix n in the resolved sequence, and both follow the unsuffixed file,
\* for all suffix values, those that do not fit a signed 32-bit integer
\* included.
C27_SuffixOrderForAllValues ==
    Resolved =>
        \A a, b \in Range(IconNames) :
            /\ (SuffixOf(a) = <<>> /\ SuffixOf(b) # <<>>)
                   => PlaceOfIcon(a) < PlaceOfIcon(b)
            /\ ( /\ SuffixOf(a) # <<>>
                 /\ SuffixOf(b) # <<>>
                 /\ NumLess(SuffixOf(a), SuffixOf(b)) )
                   => PlaceOfIcon(a) < PlaceOfIcon(b)

\* the same for the suffixes below 2^31
SuffixOrderWithinI32 ==
    Resolved =>
        \A a, b \in {x \in Range(IconNames) :
                        SuffixOf(x) = <<>> \/ is_some(parse_i32(SuffixOf(x)))} :
            /\ (SuffixOf(a) = <<>> /\ SuffixOf(b) # <<>>)
                   => PlaceOfIcon(a) < PlaceOfIcon(b)
            /\ ( /\ SuffixOf(a) # <<>>
                 /\ SuffixOf(b) # <<>>
                 /\ NumLess(SuffixOf(a), SuffixOf(b)) )
                   => PlaceOfIcon(a) < PlaceOfIcon(b)


(***************************************************************************)
(* Properties of the names the entries carry.                              *)
(***************************************************************************)
\* the issues of a pass that report two pages of one key with different
\* original names
NameMismatches ==
    {i \in 1..Len(PassIssues) : PassIssues[i].message.text = "Conflicting pages"}

\* C28: in every table returned by get_entrypoints each entry's original_name
\* equals the key it is stored under, the names of route groups and parallel
\* slots appear in neither, and no two page registrations of one key differ
\* in their original names.
C28_OriginalNameIsKey ==
    Resolved =>
        /\ \A j \in 1..Len(Table) :
               /\ Table[j].value.original_name = Table[j].key
               /\ "@" \notin Range(Table[j].key)
               /\ "(" \notin Range(Table[j].key)
        /\ NameMismatches = {}

\* a page of the root and a page of a parallel slot, or pages of the root and
\* of a route group, were registered under the one key "/"
C28_Witness ==
    /\ Resolved
    /\ \E dir \in {D_modal, D_group} :
           /\ <<dir>> \in DOMAIN snapshot
           /\ is_some(get_directory_tree(snapshot, <<dir>>,
                                          PageExtensions).value.components.page)
    /\ is_some(directory_tree[1].value.components.page)
    /\ \E j \in 1..Len(Table) :
           /\ Table[j].key = S_slash
           /\ Table[j].value.original_name = S_slash


(***************************************************************************)
(* Properties of the metadata of merged loader trees.                      *)
(***************************************************************************)
NoRepeats(list) ==
    \A i, j \in 1..Len(list) : i # j => list[i] # list[j]

MetadataOnce(metadata) ==
    /\ NoRepeats(metadata.icon)
    /\ NoRepeats(metadata.apple)
    /\ NoRepeats(metadata.twitter)
    /\ NoRepeats(metadata.open_graph)
    /\ NoRepeats(metadata.favicon)

RECURSIVE MetadataOnceInTree(_)
MetadataOnceInTree(t) ==
    /\ MetadataOnce(t.components.metadata)
    /\ \A k \in 1..Len(t.parallel_routes) :
           MetadataOnceInTree(t.parallel_routes[k].value)

\* C29: in every LoaderTree stored in Entrypoints each metadata sequence of
\* a node holds each metadata file at most once, also where several
\* registrations of one path were merged.
C29_MetadataNotDuplicated ==
    Resolved =>
        \A j \in 1..Len(Table) :
            Table[j].value.type = "AppPage"
                => MetadataOnceInTree(Table[j].value.loader_tree)

\* the same for the trees no merge has touched: the tree of a key that only
\* one directory with a page or default file registers under
MetadataOnceWithoutMerge ==
    Resolved =>
        \A j \in 1..Len(Table) :
            ( /\ Table[j].value.type = "AppPage"
              /\ Table[j].key \notin {S_slash_not_found, S_slash_underscore_not_found}
              /\ Cardinality({dir \in DOMAIN snapshot :
                     /\ RouteKey(dir) = Table[j].key
                     /\ LET c == get_directory_tree(snapshot, dir,
                                     PageExtensions).value.components
                        IN  is_some(c.page) \/ is_some(c.default)}) <= 1 )
                => MetadataOnceInTree(Table[j].value.loader_tree)


(***************************************************************************)
(* What a registration call leaves alone.                                  *)
(***************************************************************************)
\* C30: no registration call removes a key or changes the relative order of
\* the keys already there.  A call on a vacant key appends that key at the
\* end and leaves every entry there was as it was; a call on an occupied
\* key, merging or conflicting, leaves the key sequence and the entry of
\* every other key unchanged.
C30_KeysKeptInOrder ==
    last.op # "none" =>
        LET i == get_index_of(last.before, last.key)
        IN  /\ i = 0 =>
                   /\ MapKeys(result) = Append(MapKeys(last.before), last.key)
                   /\ SubSeq(result, 1, Len(last.before)) = last.before
            /\ i # 0 =>
                   /\ MapKeys(result) = MapKeys(last.before)
                   /\ \A k \in 1..Len(last.before) :
                          k # i => result[k] = last.before[k]

\* a call on the occupied first key of a table of several keys changed the
\* entry of that key
C30_Witness ==
    /\ last.op # "none"
    /\ Len(last.before) >= 2
    /\ get_index_of(last.before, last.key) = 1
    /\ result # last.before

====
